---- MODULE Spec2Model ----
(***************************************************************************)
(* A state-machine model of the red-list evaluation tool's request         *)
(* handlers (src/app.py) over its relational store (src/models.py) and its *)
(* process-local statistics cache (SimpleCache, src/app.py).               *)
(*                                                                         *)
(* Optional values are sequences of length at most one: <<>> is Python's   *)
(* None / SQL NULL, <<v>> is a present value v.                            *)
(***************************************************************************)
EXTENDS Integers, Sequences, FiniteSets, TLC

VARIABLES
    projects,       \* rows of table projects: the set of project ids
    observations,   \* rows of table observations: a set of records
    next_id,        \* the serial behind observations.id
    convex_hulls,   \* rows of table convex_hulls: a sequence of records
    hull_next_id,   \* the serial behind convex_hulls.id
    grid_cells,     \* rows of table grid_cells: a sequence of records
    base_grid_cells,\* rows of table base_grid_cells: a set of records
    parent_id,      \* column projects.parent_id: project id -> None or <<id>>
    project_next_id,\* the serial behind projects.id
    stats_cache,    \* stats_cache.cache: key -> [value, timestamp]
    now,            \* datetime.utcnow(), in seconds
    resp,           \* the response of the last completed request
    pc,             \* per worker thread: where it is inside a handler
    local,          \* per worker thread: the handler's local variables
    session         \* per client: Flask's session, key -> value

vars == <<projects, observations, next_id, convex_hulls, hull_next_id,
          grid_cells, base_grid_cells, parent_id, project_next_id,
          stats_cache, now, resp, pc, local, session>>

store_vars == <<projects, observations, next_id, convex_hulls, hull_next_id,
                grid_cells, base_grid_cells, parent_id, project_next_id>>

(***************************************************************************)
(* Bounds of the model.                                                    *)
(***************************************************************************)
MaxPeriods == 2
MaxObs == 4         \* observation rows ever inserted
MaxFeatures == 3    \* features of one request

\* chunk_size = 1000 in save_observations and upload_csv_to_project, scaled
\* down so that a request of MaxFeatures features spans several chunks.
chunk_size == 2

ProjectIds == {1, 2}
DatasetIds == {"a", "b"}
Threads == {1, 2}
CacheValues == {1, 2}

None == <<>>
Some(v) == <<v>>

(***************************************************************************)
(* SimpleCache (src/app.py:36-60).                                         *)
(***************************************************************************)
ttl == 300

\* The instants the clock is sampled at: each multiple of the TTL and the
\* seconds right before and after it.
Instants == {t \in {k * ttl + e : k \in 0..MaxPeriods, e \in {-1, 0, 1}} : t >= 0}

\* f"stats:{project_id}"
cache_key(project_id) == <<"stats", project_id>>

CacheKeys == {cache_key(p) : p \in ProjectIds}

EmptyCache == [k \in {} |-> [value |-> 0, timestamp |-> 0]]

\* datetime.utcnow() - timestamp < self.ttl, with <= in place of <
NotExpiredInclusive(timestamp, t) == t - timestamp <= ttl

\* datetime.utcnow() - timestamp < self.ttl
NotExpired(timestamp, t) == t - timestamp < ttl

DropKey(cache, key) == [k \in DOMAIN cache \ {key} |-> cache[k]]

\* SimpleCache.get: the value returned
SimpleCache_get(cache, key, t) ==
    IF key \in DOMAIN cache /\ NotExpired(cache[key].timestamp, t)
    THEN Some(cache[key].value)
    ELSE None

\* SimpleCache.get: the map it leaves (an expired entry is deleted)
SimpleCache_get_effect(cache, key, t) ==
    IF key \in DOMAIN cache /\ ~NotExpired(cache[key].timestamp, t)
    THEN DropKey(cache, key)
    ELSE cache

\* SimpleCache.set
SimpleCache_set(cache, key, value, t) ==
    [k \in DOMAIN cache \cup {key} |->
        IF k = key THEN [value |-> value, timestamp |-> t] ELSE cache[k]]

\* SimpleCache.delete
SimpleCache_delete_nothing(cache, key) == cache

SimpleCache_delete(cache, key) ==
    IF key \in DOMAIN cache THEN DropKey(cache, key) ELSE cache

\* SimpleCache.clear
SimpleCache_clear(cache) == EmptyCache

(***************************************************************************)
(* Initial state: the seeded projects, project 2 a child of project 1, no  *)
(* observations, the base tiling created, an empty cache, every worker     *)
(* idle.                                                                   *)
(***************************************************************************)
\* The cells of the tiling create_base_grid_if_missing generates (the CTE
\* grid): geometries are points on a line and the tiling cuts the line into
\* unit intervals.
base_grid == {[lo |-> k, hi |-> k + 1] : k \in 0..3}

\* INSERT INTO base_grid_cells (...) SELECT ... FROM grid: one row per cell
\* of the tiling, the serial filling id after the rows there are
insert_base_grid(rows) ==
    rows \cup {[id |-> Cardinality(rows) + cell.hi, geom_4326 |-> cell] :
                  cell \in base_grid}

\* The browsers that hold a session cookie, and the session of a browser
\* that has none yet.
Clients == {1, 2}
EmptySession == [k \in {} |-> ""]

NoResp == [request |-> [op |-> "none"], status |-> 0, success |-> FALSE,
           body |-> [count |-> 0]]

Init ==
    /\ projects = ProjectIds
    /\ observations = {}
    /\ next_id = 1
    /\ convex_hulls = <<>>
    /\ hull_next_id = 1
    /\ grid_cells = <<>>
    /\ base_grid_cells = insert_base_grid({})
    /\ parent_id = [p \in ProjectIds |-> IF p = 2 THEN Some(1) ELSE None]
    /\ project_next_id = 3
    /\ stats_cache = EmptyCache
    /\ now = 0
    /\ resp = NoResp
    /\ pc = [t \in Threads |-> "idle"]
    /\ local = [t \in Threads |-> None]
    /\ session = [c \in Clients |-> EmptySession]

\* The clock advances to a later instant.
Tick(t) ==
    /\ t > now
    /\ now' = t
    /\ UNCHANGED <<store_vars, stats_cache, resp, pc, local, session>>

Min(S) == CHOOSE x \in S : \A y \in S : x <= y
Max(S) == CHOOSE x \in S : \A y \in S : x >= y

\* The observations of project p.
RowsOf(rows, p) == {o \in rows : o.project_id = p}

(***************************************************************************)
(* Ingest: save_observations (src/app.py:499-577).                         *)
(*                                                                         *)
(* A feature is [geometry |-> None or <<mapping>>]; a GeoJSON mapping is   *)
(* [type, coordinates].  shapely's shape() reads a Point and raises on a   *)
(* mapping of a type it does not know.                                     *)
(***************************************************************************)
PointGeometry(c) == Some([type |-> "Point", coordinates |-> c])
MalformedGeometry == Some([type |-> "Bogus", coordinates |-> 0])

\* `shape(feature['geometry'])` raises
shape_raises(feature) ==
    feature.geometry # None /\ feature.geometry[1].type # "Point"

\* f'SRID=4326;{geom}' if geom else None, geom = shape(...).wkt
ewkt(feature) ==
    IF feature.geometry = None
    THEN None
    ELSE Some([srid |-> 4326, point |-> feature.geometry[1].coordinates])

\* The JSONB column properties is a function from keys to values.  A key
\* is the pair <<stem, suffix>> of its text cut after the stem the queries
\* name, 'gathering.team[0]' being <<"gathering.team", "[0]">>; a value is
\* the text the operators ->> and jsonb_each_text give for it, None for a
\* JSON null.
EmptyProps == [k \in {} |-> None]

\* feature.get('properties', {})
feature_properties(feature) ==
    IF "properties" \in DOMAIN feature THEN feature.properties ELSE EmptyProps

\* One element of the list handed to insert(Observation); the column
\* default fills excluded (models.py:44), the serial fills id.
observation_row(id, project_id, dataset_id, feature) ==
    [id |-> id,
     project_id |-> project_id,
     dataset_id |-> dataset_id,
     excluded |-> FALSE,
     properties |-> feature_properties(feature),
     geometry |-> ewkt(feature)]

\* features[i:i+chunk_size+1]: a slice one feature too long
chunk_at_overlapping(features, i) ==
    SubSeq(features, i + 1, IF i + chunk_size + 1 < Len(features)
                            THEN i + chunk_size + 1 ELSE Len(features))

\* features[i:i+chunk_size], i counted from 0
chunk_at(features, i) ==
    SubSeq(features, i + 1, IF i + chunk_size < Len(features)
                            THEN i + chunk_size ELSE Len(features))

\* The chunk loop with one transaction around the whole request: a chunk
\* that raises rolls back the chunks before it too.
RECURSIVE insert_chunks_one_transaction(_, _, _, _, _, _)
insert_chunks_one_transaction(features, i, fail_at, project_id, dataset_id, rows) ==
    IF i >= Len(features)
    THEN [rows |-> rows, raised |-> FALSE]
    ELSE LET chunk == chunk_at(features, i)
             first == next_id + Cardinality(rows)
         IN IF \/ \E j \in 1..Len(chunk) : shape_raises(chunk[j])
               \/ fail_at = (i \div chunk_size) + 1
            THEN [rows |-> {}, raised |-> TRUE]
            ELSE insert_chunks_one_transaction(features, i + chunk_size, fail_at,
                               project_id, dataset_id,
                               rows \cup {observation_row(first + j - 1,
                                              project_id, dataset_id, chunk[j])
                                          : j \in 1..Len(chunk)})

\* The chunk loop of save_observations from offset i on.  rows are the
\* rows committed so far.  fail_at names the chunk (counted from 1) whose
\* execute/commit the store refuses, 0 for none.  A chunk whose
\* preparation or insert raises leaves through `except: rollback; raise`.
RECURSIVE insert_chunks(_, _, _, _, _, _)
insert_chunks(features, i, fail_at, project_id, dataset_id, rows) ==
    IF i >= Len(features)
    THEN [rows |-> rows, raised |-> FALSE]
    ELSE LET chunk == chunk_at(features, i)
             first == next_id + Cardinality(rows)
         IN IF \/ \E j \in 1..Len(chunk) : shape_raises(chunk[j])
               \/ fail_at = (i \div chunk_size) + 1
            THEN [rows |-> rows, raised |-> TRUE]
            ELSE insert_chunks(features, i + chunk_size, fail_at,
                               project_id, dataset_id,
                               rows \cup {observation_row(first + j - 1,
                                              project_id, dataset_id, chunk[j])
                                          : j \in 1..Len(chunk)})

num_chunks(features) == (Len(features) + chunk_size - 1) \div chunk_size

SaveRequest(project_id, dataset_id, features, fail_at) ==
    [op |-> "save_observations", project_id |-> project_id,
     dataset_id |-> dataset_id, features |-> features, fail_at |-> fail_at]

Respond(request, status, body) ==
    resp' = [request |-> request, status |-> status,
             success |-> (status = 200), body |-> body]

\* fail_at = num_chunks(features) + 1 is a store failure of the commit of
\* project.updated_at that follows the loop.
save_observations(project_id, dataset_id, features, fail_at) ==
    LET request == SaveRequest(project_id, dataset_id, features, fail_at) IN
    /\ IF project_id = 0 \/ features = <<>>
       THEN /\ Respond(request, 400, [count |-> 0])
            /\ UNCHANGED <<observations, next_id, stats_cache>>
       ELSE IF project_id \notin projects
       THEN /\ Respond(request, 404, [count |-> 0])
            /\ UNCHANGED <<observations, next_id, stats_cache>>
       ELSE LET r == insert_chunks(features, 0, fail_at, project_id,
                                   dataset_id, {})
            IN /\ observations' = observations \cup r.rows
               /\ next_id' = next_id + Cardinality(r.rows)
               /\ IF r.raised \/ fail_at = num_chunks(features) + 1
                  THEN /\ Respond(request, 500, [count |-> 0])
                       /\ UNCHANGED stats_cache
                  ELSE /\ Respond(request, 200,
                                  [count |-> Cardinality(r.rows)])
                       /\ stats_cache' =
                             SimpleCache_delete(stats_cache,
                                                cache_key(project_id))
    /\ UNCHANGED <<projects, convex_hulls, hull_next_id,
                 grid_cells, base_grid_cells, parent_id,
                 project_next_id, now, pc, local, session>>

(***************************************************************************)
(* upload_csv_to_project (src/app.py:579-714).  A CSV row is modelled by   *)
(* what the row loop makes of it: [geometry |-> PointGeometry(c)] for a    *)
(* row with a parsable WKT or latitude/longitude, [geometry |-> None] for  *)
(* a row with neither, which the loop skips.                               *)
(***************************************************************************)
\* the features list built by the row loop
csv_features(rows) == SelectSeq(rows, LAMBDA row : row.geometry # None)

UploadRequest(project_id, dataset_id, rows, fail_at) ==
    [op |-> "upload_csv_to_project", project_id |-> project_id,
     dataset_id |-> dataset_id, rows |-> rows, fail_at |-> fail_at]

upload_csv_to_project(project_id, dataset_id, rows, fail_at) ==
    LET request == UploadRequest(project_id, dataset_id, rows, fail_at)
        features == csv_features(rows)
    IN
    /\ IF features = <<>>
       THEN /\ Respond(request, 400, [count |-> 0])
            /\ UNCHANGED <<observations, next_id, stats_cache>>
       ELSE IF project_id \notin projects
       THEN /\ Respond(request, 404, [count |-> 0])
            /\ UNCHANGED <<observations, next_id, stats_cache>>
       ELSE LET r == insert_chunks(features, 0, fail_at, project_id,
                                   dataset_id, {})
            IN /\ observations' = observations \cup r.rows
               /\ next_id' = next_id + Cardinality(r.rows)
               /\ IF r.raised \/ fail_at = num_chunks(features) + 1
                  THEN /\ Respond(request, 500, [count |-> 0])
                       /\ UNCHANGED stats_cache
                  ELSE /\ Respond(request, 200,
                                  [count |-> Cardinality(r.rows)])
                       /\ stats_cache' =
                             SimpleCache_delete(stats_cache,
                                                cache_key(project_id))
    /\ UNCHANGED <<projects, convex_hulls, hull_next_id,
                 grid_cells, base_grid_cells, parent_id,
                 project_next_id, now, pc, local, session>>

(***************************************************************************)
(* Deletes (src/app.py:393-429, 471-497).  fail is a store failure of the  *)
(* request's statements or commit: nothing is committed and the handler's  *)
(* except branch answers 500.                                              *)
(***************************************************************************)
\* the derived rows of the project dropped as stale
derived_rows_dropped(rows, project_id) ==
    SelectSeq(rows, LAMBDA r : r.project_id # project_id)

\* A table of derived rows, convex_hulls or grid_cells, after the handler:
\* its only statement is the DELETE on observations, no statement names
\* the table.
derived_rows_kept(rows, project_id) == rows

delete_dataset_from_project(project_id, dataset_id, fail) ==
    LET request == [op |-> "delete_dataset_from_project",
                    project_id |-> project_id, dataset_id |-> dataset_id,
                    fail |-> fail]
        doomed == {o \in observations :
                      o.project_id = project_id /\ o.dataset_id = dataset_id}
    IN
    /\ IF fail
       THEN /\ Respond(request, 500, [deleted_observations |-> 0])
            /\ UNCHANGED <<observations, convex_hulls, grid_cells, stats_cache>>
       ELSE /\ observations' = observations \ doomed
            /\ convex_hulls' = derived_rows_kept(convex_hulls, project_id)
            /\ grid_cells' = derived_rows_kept(grid_cells, project_id)
            /\ stats_cache' = SimpleCache_delete(stats_cache, cache_key(project_id))
            /\ Respond(request, 200,
                       [deleted_observations |-> Cardinality(doomed)])
    /\ UNCHANGED <<projects, next_id, hull_next_id, base_grid_cells, parent_id,
                   project_next_id, now, pc, local, session>>

\* rows of a sequence-valued table that satisfy keep
FilterRows(rows, keep(_)) == SelectSeq(rows, keep)

cascade_none(rows, project_id) == {}

\* observations = relationship(..., cascade='all, delete-orphan'): the
\* observations deleted with their project
cascade(rows, project_id) == {o \in rows : o.project_id = project_id}

delete_project(project_id, fail) ==
    LET request == [op |-> "delete_project", project_id |-> project_id,
                    fail |-> fail]
        doomed == cascade(observations, project_id)
    IN
    /\ IF fail
       THEN /\ Respond(request, 500, [deleted_observations |-> 0])
            /\ UNCHANGED <<projects, observations, convex_hulls, grid_cells,
                           parent_id, stats_cache>>
       ELSE IF project_id \notin projects
       THEN /\ Respond(request, 404, [deleted_observations |-> 0])
            /\ UNCHANGED <<projects, observations, convex_hulls, grid_cells,
                           parent_id, stats_cache>>
       ELSE /\ convex_hulls' =
                  FilterRows(convex_hulls, LAMBDA h : h.project_id # project_id)
            /\ observations' = observations \ doomed
            /\ grid_cells' =
                  FilterRows(grid_cells, LAMBDA g : g.project_id # project_id)
            /\ projects' = projects \ {project_id}
            /\ parent_id' = [p \in projects \ {project_id} |->
                                IF parent_id[p] = Some(project_id)
                                THEN None ELSE parent_id[p]]
            /\ stats_cache' = SimpleCache_delete(stats_cache, cache_key(project_id))
            /\ Respond(request, 200,
                       [deleted_observations |-> Cardinality(doomed)])
    /\ UNCHANGED <<next_id, hull_next_id, base_grid_cells, project_next_id,
                 now, pc, local, session>>

(***************************************************************************)
(* Exclusion (src/app.py:927-998).                                         *)
(***************************************************************************)
\* to_jsonb(CAST(:excluded AS boolean)) as text
to_jsonb_text(excluded) == IF excluded THEN "true" ELSE "false"

\* jsonb_set(properties, '{excluded}', value, true); props['excluded'] = value
jsonb_set(props, key, text) ==
    [k \in DOMAIN props \cup {key} |-> IF k = key THEN Some(text) ELSE props[k]]

\* the rows named by ids with the excluded column and the key 'excluded'
\* of properties set
with_excluded(rows, ids, excluded) ==
    {IF o.id \in ids
     THEN [o EXCEPT !.excluded = excluded,
                    !.properties = jsonb_set(@, <<"excluded", "">>,
                                             to_jsonb_text(excluded))]
     ELSE o : o \in rows}

set_observation_excluded(obs_id, excluded, fail) ==
    LET request == [op |-> "set_observation_excluded", obs_id |-> obs_id,
                    excluded |-> excluded, fail |-> fail]
    IN
    /\ IF fail
       THEN /\ Respond(request, 500, [excluded |-> excluded])
            /\ UNCHANGED observations
       ELSE IF obs_id \notin {o.id : o \in observations}
       THEN /\ Respond(request, 404, [excluded |-> excluded])
            /\ UNCHANGED observations
       ELSE /\ observations' = with_excluded(observations, {obs_id}, excluded)
            /\ Respond(request, 200, [excluded |-> excluded])
    /\ UNCHANGED <<projects, next_id, convex_hulls, hull_next_id,
                 grid_cells, base_grid_cells, parent_id,
                 project_next_id, stats_cache, now, pc, local, session>>

Range(q) == {q[i] : i \in 1..Len(q)}

\* UPDATE observations ... WHERE id = ANY(:ids) RETURNING id
updated_ids(ids) == {o.id : o \in {o \in observations : o.id \in Range(ids)}}

set_observations_excluded(ids, excluded, fail) ==
    LET request == [op |-> "set_observations_excluded", ids |-> ids,
                    excluded |-> excluded, fail |-> fail]
        updated == updated_ids(ids)
        processed == Cardinality(updated)
    IN
    /\ IF ids = <<>>
       THEN /\ Respond(request, 400, [processed |-> 0, failed |-> 0,
                                      updated_ids |-> {}])
            /\ UNCHANGED observations
       ELSE IF fail
       THEN /\ Respond(request, 500, [processed |-> 0, failed |-> 0,
                                      updated_ids |-> {}])
            /\ UNCHANGED observations
       ELSE /\ observations' = with_excluded(observations, updated, excluded)
            /\ Respond(request, 200,
                       [processed |-> processed,
                        failed |-> Len(ids) - processed,
                        updated_ids |-> updated])
    /\ UNCHANGED <<projects, next_id, convex_hulls, hull_next_id,
                 grid_cells, base_grid_cells, parent_id,
                 project_next_id, stats_cache, now, pc, local, session>>

(***************************************************************************)
(* get_dataset_stats (src/app.py:1033-1222).                               *)
(***************************************************************************)
\* properties[key].astext: NULL for a missing key and for a JSON null
astext(props, key) == IF key \in DOMAIN props THEN props[key] ELSE None

species_key == <<"unit.linkings.taxon.scientificName", "">>
locality_key == <<"gathering.locality", "">>
date_key == <<"gathering.displayDateTime", "">>
basis_key == <<"unit.recordBasis", "">>
individual_count_key == <<"unit.interpretations.individualCount", "">>

\* the count with the excluded rows left out
total_records_included(rows, project_id) ==
    Cardinality({o \in RowsOf(rows, project_id) : ~o.excluded})

\* func.count(Observation.id) ... filter_by(project_id=project_id)
total_records(rows, project_id) == Cardinality(RowsOf(rows, project_id))

\* the rows of the project whose value of key IS NOT NULL
rows_with(rows, project_id, key) ==
    {o \in RowsOf(rows, project_id) : astext(o.properties, key) # None}

\* func.count(func.distinct(properties[key].astext)) over those rows
count_distinct(rows, project_id, key) ==
    Cardinality({astext(o.properties, key)[1] :
                    o \in rows_with(rows, project_id, key)})

\* The date texts of the model in the order of the store's collation, and
\* what split(' ')[0] leaves of each.
date_texts == <<"2019-12-31 23:59", "2020-05-01 10:00", "2021-01-01">>
date_parts == <<"2019-12-31", "2020-05-01", "2021-01-01">>
text_rank(text) == CHOOSE i \in 1..Len(date_texts) : date_texts[i] = text

\* func.min / func.max of the texts, then `x.split(' ')[0] if x else None`
date_range(rows, project_id) ==
    LET ranks == {text_rank(astext(o.properties, date_key)[1]) :
                     o \in rows_with(rows, project_id, date_key)}
    IN [earliest |-> IF ranks = {} THEN None ELSE Some(date_parts[Min(ranks)]),
        latest |-> IF ranks = {} THEN None ELSE Some(date_parts[Max(ranks)])]

\* group_by(properties['unit.recordBasis'].astext): the groups, NULL one
\* of them, and func.count(Observation.id) of a group
basis_groups(rows, project_id) ==
    {astext(o.properties, basis_key) : o \in RowsOf(rows, project_id)}
basis_count(rows, project_id, basis) ==
    Cardinality({o \in RowsOf(rows, project_id) :
                    astext(o.properties, basis_key) = basis})

\* row.basis or 'Unknown'
basis_label(basis) ==
    IF basis = None \/ basis = Some("") THEN "Unknown" ELSE basis[1]

\* {(row.basis or 'Unknown'): row.count for row in results}: of the groups
\* that share a label the one the store returns last stays, and the store
\* returns the groups in no fixed order.
record_basis_counts(rows, project_id) ==
    LET groups == basis_groups(rows, project_id)
        labels == {basis_label(g) : g \in groups}
    IN {[l \in labels |-> basis_count(rows, project_id, last[l])] :
           last \in {f \in [labels -> groups] :
                        \A l \in labels : basis_label(f[l]) = l}}

\* CAST(text AS INTEGER): the integer read from each text the store's
\* integer input accepts; every other text raises.
int4in == ("0" :> 0) @@ ("3" :> 3) @@ ("7" :> 7)
cast_integer_raises(text) == text \notin DOMAIN int4in
cast_integer(text) == int4in[text]

\* The individualCount query raises: a row of the project holds a text
\* that is not an integer.
individual_count_raises(rows, project_id) ==
    \E o \in rows_with(rows, project_id, individual_count_key) :
        cast_integer_raises(astext(o.properties, individual_count_key)[1])

RECURSIVE sum_of(_)
sum_of(rows) ==
    IF rows = {} THEN 0
    ELSE LET o == CHOOSE o \in rows : TRUE
         IN cast_integer(astext(o.properties, individual_count_key)[1])
            + sum_of(rows \ {o})

RECURSIVE gcd(_, _)
gcd(a, b) == IF b = 0 THEN a ELSE gcd(b, a % b)

\* float(avg) if avg else 0, as a fraction in lowest terms
average(sum, count) ==
    IF sum = 0 THEN [num |-> 0, den |-> 1]
    ELSE LET d == gcd(IF sum < 0 THEN -sum ELSE sum, count)
         IN [num |-> sum \div d, den |-> count \div d]

\* individual_count_stats: None, or min, max, sum, average and count over
\* the rows whose value casts to an integer
individual_count_stats(rows, project_id) ==
    LET valid == rows_with(rows, project_id, individual_count_key)
        values == {cast_integer(astext(o.properties, individual_count_key)[1]) :
                      o \in valid}
        count == Cardinality(valid)
    IN IF count = 0 THEN None
       ELSE Some([min |-> Min(values), max |-> Max(values),
                  sum |-> sum_of(valid),
                  average |-> average(sum_of(valid), count),
                  count |-> count])

\* .limit(10) and LIMIT 10, scaled down so that a project of MaxObs rows
\* has more groups than the limit.
top_limit == 2

\* ORDER BY count, without DESC
order_by_count_asc(counts) ==
    LET n == Cardinality(DOMAIN counts) IN
    {q \in [1..n -> DOMAIN counts] :
        /\ \A i, j \in 1..n : i # j => q[i] # q[j]
        /\ \A i \in 1..(n - 1) : counts[q[i]] <= counts[q[i + 1]]}

\* ORDER BY count DESC: the orders of the groups the store may return
order_by_count_desc(counts) ==
    LET n == Cardinality(DOMAIN counts) IN
    {q \in [1..n -> DOMAIN counts] :
        /\ \A i, j \in 1..n : i # j => q[i] # q[j]
        /\ \A i \in 1..(n - 1) : counts[q[i]] >= counts[q[i + 1]]}

\* LIMIT n
top_rows(q, n) == SubSeq(q, 1, IF Len(q) < n THEN Len(q) ELSE n)

\* the groups of the top-species query with func.count(Observation.id)
species_counts(rows, project_id) ==
    [v \in {astext(o.properties, species_key)[1] :
               o \in rows_with(rows, project_id, species_key)} |->
        Cardinality({o \in RowsOf(rows, project_id) :
                        astext(o.properties, species_key) = Some(v)})]

\* top_species: the lists the query may return
top_species(rows, project_id) ==
    LET counts == species_counts(rows, project_id) IN
    {[i \in 1..Len(l) |-> [species |-> l[i], count |-> counts[l[i]]]] :
        l \in {top_rows(q, top_limit) : q \in order_by_count_desc(counts)}}

\* a pattern that matches every key
like_any(key) == TRUE

\* kv.key LIKE 'gathering.team%'
like_team(key) == key[1] = "gathering.team"

\* FROM observations, jsonb_each_text(properties) AS kv(key, value)
\* WHERE project_id = :project_id AND kv.key LIKE 'gathering.team%'
\*   AND kv.value IS NOT NULL: the joined rows, one per observation and key
observer_mentions(rows, project_id) ==
    UNION {{[id |-> o.id, key |-> k, value |-> o.properties[k][1]] :
               k \in {k \in DOMAIN o.properties :
                         like_team(k) /\ o.properties[k] # None}} :
           o \in RowsOf(rows, project_id)}

\* GROUP BY kv.value with COUNT(*)
observer_counts(rows, project_id) ==
    LET mentions == observer_mentions(rows, project_id) IN
    [v \in {m.value : m \in mentions} |->
        Cardinality({m \in mentions : m.value = v})]

\* top_observers: the lists the query may return
top_observers(rows, project_id) ==
    LET counts == observer_counts(rows, project_id) IN
    {[i \in 1..Len(l) |-> [observer |-> l[i], count |-> counts[l[i]]]] :
        l \in {top_rows(q, top_limit) : q \in order_by_count_desc(counts)}}

\* SELECT COUNT(DISTINCT kv.value) over the same joined rows
unique_observers(rows, project_id) ==
    Cardinality({m.value : m \in observer_mentions(rows, project_id)})

\* result["stats"]: the Statistics Summaries the queries may build for a
\* project
stats_summaries(rows, project_id) ==
    LET total == total_records(rows, project_id)
        unique_species == count_distinct(rows, project_id, species_key)
        unique_localities == count_distinct(rows, project_id, locality_key)
        observers_unique == unique_observers(rows, project_id)
        dates == date_range(rows, project_id)
        individual == individual_count_stats(rows, project_id)
    IN {[totalRecords |-> total,
         uniqueSpecies |-> unique_species,
         uniqueLocalities |-> unique_localities,
         uniqueObservers |-> observers_unique,
         dateRange |-> dates,
         recordBasisCounts |-> basis,
         individualCountStats |-> individual,
         topSpecies |-> species,
         topObservers |-> observers] :
           basis \in record_basis_counts(rows, project_id),
           species \in top_species(rows, project_id),
           observers \in top_observers(rows, project_id)}

aggregates_swallowed(fail) == FALSE

\* a query of the handler raises; nothing inside the handler catches it
aggregates_raise(fail) == fail

get_dataset_stats(project_id, fail) ==
    LET request == [op |-> "get_dataset_stats", project_id |-> project_id,
                    fail |-> fail]
        key == cache_key(project_id)
        cached_result == SimpleCache_get(stats_cache, key, now)
        after_get == SimpleCache_get_effect(stats_cache, key, now)
    IN
    /\ IF cached_result # None
       THEN /\ Respond(request, 200, [stats |-> cached_result])
            /\ stats_cache' = after_get
       ELSE IF aggregates_raise(fail)
       THEN /\ Respond(request, 500, [stats |-> None])
            /\ stats_cache' = after_get
       ELSE IF \/ project_id \notin projects
               \/ total_records(observations, project_id) = 0
       THEN /\ Respond(request, 404, [stats |-> None])
            /\ stats_cache' = after_get
       ELSE IF individual_count_raises(observations, project_id)
       THEN /\ Respond(request, 500, [stats |-> None])
            /\ stats_cache' = after_get
       ELSE \E result \in stats_summaries(observations, project_id) :
              /\ Respond(request, 200, [stats |-> Some(result)])
              /\ stats_cache' = SimpleCache_set(after_get, key, result, now)
    /\ UNCHANGED <<store_vars, now, pc, local, session>>

(***************************************************************************)
(* get_observations (src/app.py:826-925).                                  *)
(***************************************************************************)
\* ORDER BY id
RECURSIVE order_by_id(_)
order_by_id(ids) ==
    IF ids = {} THEN <<>>
    ELSE LET first == Min(ids) IN <<first>> \o order_by_id(ids \ {first})

\* offset = page * per_page
page_offset_from_zero(page, per_page) == page * per_page

\* offset = (page - 1) * per_page
page_offset(page, per_page) == (page - 1) * per_page

\* SELECT ... WHERE project_id = :project_id ORDER BY id
\* LIMIT :limit OFFSET :offset: the ids of the rows returned
select_page(rows, project_id, limit, offset) ==
    LET ordered == order_by_id({o.id : o \in RowsOf(rows, project_id)})
        last == IF offset + limit < Len(ordered)
                THEN offset + limit ELSE Len(ordered)
    IN SubSeq(ordered, offset + 1, last)

\* COUNT(*) OVER(): the number of rows matching the WHERE clause, carried
\* by each returned row
total_count(rows, project_id) == Cardinality(RowsOf(rows, project_id))

\* The "pagination" object and the features (by _db_id) of the response.
get_observations_body(rows, project_id, page, per_page) ==
    LET results == select_page(rows, project_id, per_page,
                               page_offset(page, per_page))
        total == total_count(rows, project_id)
    IN IF results = <<>>
       THEN [features |-> <<>>, total |-> 0, pages |-> 0]
       ELSE [features |-> results, total |-> total,
             pages |-> (total + per_page - 1) \div per_page]

\* PostgreSQL refuses a negative LIMIT or OFFSET: the except branch
\* answers 500.
get_observations(project_id, page, per_page) ==
    LET request == [op |-> "get_observations", project_id |-> project_id,
                    page |-> page, per_page |-> per_page]
    IN
    /\ IF per_page < 0 \/ page_offset(page, per_page) < 0
       THEN Respond(request, 500, [features |-> <<>>, total |-> 0, pages |-> 0])
       ELSE Respond(request, 200,
                    get_observations_body(observations, project_id, page, per_page))
    /\ UNCHANGED <<store_vars, stats_cache, now, pc, local, session>>

\* The feature lists of a request, over the given geometries.
RECURSIVE SeqsUpTo(_, _)
SeqsUpTo(S, n) ==
    IF n = 0 THEN {<<>>}
    ELSE LET shorter == SeqsUpTo(S, n - 1)
         IN shorter \cup {Append(q, x) : q \in {q \in shorter : Len(q) = n - 1}, x \in S}

Features(geometries) == {[geometry |-> g] : g \in geometries}

\* A request fits the model when its rows fit the serial's bound.
Fits(features) == next_id + Len(features) <= MaxObs + 1

(***************************************************************************)
(* Ingest alone: requests whose features have no geometry, a point or a    *)
(* geometry shapely cannot read, with and without a store failure.         *)
(***************************************************************************)
IngestFeatureLists ==
    SeqsUpTo(Features({None, PointGeometry(1), MalformedGeometry}), MaxFeatures)

IngestSave ==
    \E project_id \in {0, 1, 3}, features \in IngestFeatureLists :
      \E fail_at \in 0..(num_chunks(features) + 1) :
        /\ Fits(features)
        /\ save_observations(project_id, "a", features, fail_at)

IngestNext == IngestSave

SpecIngest == Init /\ [][IngestNext]_vars

(***************************************************************************)
(* The request handlers that write observations or read the statistics,    *)
(* one request at a time.                                                  *)
(***************************************************************************)
\* Feature lists without geometry, and the longest of them with a last
\* feature whose geometry shapely cannot read.
PlainFeatureLists == SeqsUpTo(Features({None}), MaxFeatures) \ {<<>>}
SaveFeatureLists ==
    PlainFeatureLists \cup
    {[f EXCEPT ![Len(f)] = [geometry |-> MalformedGeometry]] :
        f \in {f \in PlainFeatureLists : Len(f) = MaxFeatures}}

Save ==
    \E project_id \in ProjectIds, features \in SaveFeatureLists :
        /\ Fits(features)
        /\ save_observations(project_id, "a", features, 0)

Upload ==
    \E project_id \in {1, 3},
       rows \in {<<[geometry |-> None]>>,
                 <<[geometry |-> None], [geometry |-> PointGeometry(1)]>>} :
      \E fail_at \in 0..1 :
        /\ Fits(rows)
        /\ upload_csv_to_project(project_id, "b", rows, fail_at)

DeleteDataset ==
    \E project_id \in ProjectIds, dataset_id \in DatasetIds :
        delete_dataset_from_project(project_id, dataset_id, project_id = 2)

DeleteProject ==
    \E project_id \in ProjectIds :
        delete_project(project_id, FALSE)

Exclude ==
    \E obs_id \in {1, MaxObs + 1}, excluded \in BOOLEAN :
        set_observation_excluded(obs_id, excluded, FALSE)

ExcludeBatch ==
    \E ids \in {<<1, 2>>, <<2, 2>>} :
        set_observations_excluded(ids, TRUE, FALSE)

Stats ==
    \E project_id \in ProjectIds :
        get_dataset_stats(project_id, FALSE)

ClockTick == Tick(ttl)

Next ==
    \/ Save
    \/ Upload
    \/ DeleteDataset
    \/ DeleteProject
    \/ Exclude
    \/ ExcludeBatch
    \/ Stats
    \/ ClockTick

Spec == Init /\ [][Next]_vars

\* The step is the get_dataset_stats request that resp' reports.
IsStatsStep ==
    /\ resp'.request.op = "get_dataset_stats"
    /\ get_dataset_stats(resp'.request.project_id, resp'.request.fail)

\* The last completed request was an insert or an exclusion on project p.
LastRequestAffected(p) ==
    \/ /\ resp.request.op = "save_observations"
       /\ resp.request.project_id = p
    \/ /\ resp.request.op = "set_observation_excluded"
       /\ \E o \in RowsOf(observations, p) : o.id = resp.request.obs_id
    \/ /\ resp.request.op = "set_observations_excluded"
       /\ \E o \in RowsOf(observations, p) :
             \E i \in 1..Len(resp.request.ids) : o.id = resp.request.ids[i]

(***************************************************************************)
(* C1: once a save_observations or an exclude request on project S has     *)
(* returned, the next get_dataset_stats(S) that answers with a summary     *)
(* answers with the summary of the store as that request left it, never    *)
(* with one cached before it.                                              *)
(***************************************************************************)
C1_StatsAfterMutationAreFresh ==
    [][(/\ IsStatsStep
        /\ resp'.status = 200
        /\ LastRequestAffected(resp'.request.project_id))
       => resp'.body.stats \in
            {Some(s) : s \in stats_summaries(observations,
                                             resp'.request.project_id)}]_vars

(***************************************************************************)
(* C2: every request that commits a change to the observations of a        *)
(* project P has deleted the cache key stats:P when it returns.            *)
(***************************************************************************)
C2_EveryWritePathBustsCache ==
    [][\A p \in ProjectIds :
          RowsOf(observations', p) # RowsOf(observations, p)
             => cache_key(p) \notin DOMAIN stats_cache']_vars

\* The step is the save_observations request that resp' reports.
IsSaveStep ==
    /\ resp'.request.op = "save_observations"
    /\ save_observations(resp'.request.project_id, resp'.request.dataset_id,
                         resp'.request.features, resp'.request.fail_at)

Malformed(feature) ==
    feature.geometry # <<>> /\ feature.geometry[1].type # "Point"

\* The chunks of a request, counted from 1, that cannot be inserted: one of
\* its features is malformed or the store refuses it.
BadChunks(r) ==
    {k \in 1..((Len(r.features) + chunk_size - 1) \div chunk_size) :
        \/ k = r.fail_at
        \/ \E j \in 1..Len(r.features) :
              /\ (k - 1) * chunk_size < j
              /\ j <= k * chunk_size
              /\ Malformed(r.features[j])}

\* The row expected for the j-th feature of request r when the features
\* before it were inserted too.
ExpectedRow(r, j) ==
    [id |-> next_id + j - 1,
     project_id |-> r.project_id,
     dataset_id |-> r.dataset_id,
     excluded |-> FALSE,
     properties |-> IF "properties" \in DOMAIN r.features[j]
                    THEN r.features[j].properties
                    ELSE EmptyProps,
     geometry |-> IF r.features[j].geometry = <<>> THEN <<>>
                  ELSE <<[srid |-> 4326,
                          point |-> r.features[j].geometry[1].coordinates]>>]

(***************************************************************************)
(* C5: each chunk of save_observations is committed on its own: when the   *)
(* insert of chunk k fails, exactly the rows of chunks 1..k-1 are          *)
(* persisted, no row of chunk k or of a later chunk is, and the response   *)
(* has success = false.                                                    *)
(***************************************************************************)
C5_Post(r) ==
    (r.project_id \in projects /\ r.features # <<>> /\ BadChunks(r) # {}) =>
        LET k == Min(BadChunks(r)) IN
        /\ observations' =
              observations \cup {ExpectedRow(r, j) : j \in 1..((k - 1) * chunk_size)}
        /\ resp'.success = FALSE

C5_FailedChunkKeepsEarlierChunks == [][IsSaveStep => C5_Post(resp'.request)]_vars

\* The store refused the second chunk of a three-feature request on an
\* empty store: the first chunk's rows are the whole table.
C5_Witness ==
    /\ resp.request.op = "save_observations"
    /\ resp.request.project_id \in projects
    /\ Len(resp.request.features) = chunk_size + 1
    /\ resp.request.fail_at = 2
    /\ \A j \in 1..Len(resp.request.features) : ~Malformed(resp.request.features[j])
    /\ resp.success = FALSE
    /\ Cardinality(observations) = chunk_size
    /\ next_id = chunk_size + 1

(***************************************************************************)
(* C6: a feature of save_observations whose geometry cannot be parsed is   *)
(* skipped alone: every other feature of the request, of the same chunk    *)
(* and of later chunks, is inserted.                                       *)
(***************************************************************************)
C6_Post(r) ==
    (r.project_id \in projects /\ r.features # <<>> /\ r.fail_at = 0) =>
        Cardinality(observations' \ observations) =
            Cardinality({j \in 1..Len(r.features) : ~Malformed(r.features[j])})

C6_MalformedFeatureSkippedAlone == [][IsSaveStep => C6_Post(resp'.request)]_vars

(***************************************************************************)
(* Paging alone: inserts into two projects, dataset deletes (which leave   *)
(* gaps in the ids) and page requests.                                     *)
(***************************************************************************)
MaxPage == 3
MaxPerPage == 3

PageSave ==
    \E project_id \in ProjectIds, dataset_id \in DatasetIds,
       features \in PlainFeatureLists :
        /\ Len(features) <= 2
        /\ Fits(features)
        /\ save_observations(project_id, dataset_id, features, 0)

PageDelete ==
    \E project_id \in ProjectIds, dataset_id \in DatasetIds :
        delete_dataset_from_project(project_id, dataset_id, FALSE)

PageGet ==
    \E project_id \in ProjectIds, page \in 0..MaxPage, per_page \in 1..MaxPerPage :
        get_observations(project_id, page, per_page)

PageNext == PageSave \/ PageDelete \/ PageGet

SpecPage == Init /\ [][PageNext]_vars

RECURSIVE ConcatPages(_, _, _, _)
ConcatPages(rows, project_id, per_page, n) ==
    IF n = 0 THEN <<>>
    ELSE ConcatPages(rows, project_id, per_page, n - 1)
         \o get_observations_body(rows, project_id, n, per_page).features

(***************************************************************************)
(* C7: for a project whose observations do not change during the           *)
(* traversal, pages 1..pages of get_observations with a fixed per_page     *)
(* >= 1 return every observation of the project exactly once; the number   *)
(* of records over all pages is the reported total, and the total is the   *)
(* number of observations of the project in the store.                     *)
(***************************************************************************)
C7_PagesCoverProjectExactlyOnce ==
    \A p \in ProjectIds, per_page \in 1..MaxPerPage :
        LET first == get_observations_body(observations, p, 1, per_page)
            all == ConcatPages(observations, p, per_page, first.pages)
            mine == {o.id : o \in {o \in observations : o.project_id = p}}
        IN /\ {all[i] : i \in 1..Len(all)} = mine
           /\ Len(all) = Cardinality(mine)
           /\ mine # {} =>
                 /\ first.total = Cardinality(mine)
                 /\ Len(all) = first.total
                 /\ \A n \in 1..first.pages :
                       get_observations_body(observations, p, n, per_page).total
                          = first.total

\* The second page of a project whose ids do not start at 1 has been served.
C7_Witness ==
    /\ resp.request.op = "get_observations"
    /\ resp.status = 200
    /\ resp.request.page = 2
    /\ resp.body.pages = 2
    /\ resp.body.features # <<>>
    /\ resp.body.total = Cardinality(RowsOf(observations, resp.request.project_id))
    /\ \E i \in 1..MaxObs :
          /\ i < resp.body.features[1]
          /\ i \notin {o.id : o \in RowsOf(observations, resp.request.project_id)}

(***************************************************************************)
(* C8: every get_observations request with page >= 1 and per_page >= 1,    *)
(* a page beyond the last one included, reports as total the number of     *)
(* observations of the project and as pages ceil(total / per_page).        *)
(***************************************************************************)
C8_TotalAndPagesOnEveryPage ==
    (/\ resp.request.op = "get_observations"
     /\ resp.request.page >= 1
     /\ resp.request.per_page >= 1)
    => LET n == Cardinality(RowsOf(observations, resp.request.project_id))
       IN /\ resp.body.total = n
          /\ resp.body.pages * resp.request.per_page >= n
          /\ (resp.body.pages - 1) * resp.request.per_page < n

(***************************************************************************)
(* Batch exclusion alone: observations are saved and lists of ids, with    *)
(* unknown and repeated ids among them, are flagged and unflagged.         *)
(***************************************************************************)
MaxIds == 2         \* ids of one batch request

ExcludeSave ==
    \E features \in PlainFeatureLists :
        /\ Len(features) <= 2
        /\ Fits(features)
        /\ save_observations(1, "a", features, 0)

ExcludeMany ==
    \E ids \in SeqsUpTo(1..(MaxObs + 1), MaxIds), excluded \in BOOLEAN,
       fail \in BOOLEAN :
        set_observations_excluded(ids, excluded, fail)

ExcludeNext == ExcludeSave \/ ExcludeMany

SpecExclude == Init /\ [][ExcludeNext]_vars

IsExcludeManyStep ==
    /\ ExcludeMany
    /\ resp'.request.op = "set_observations_excluded"

\* the positions of the requested list whose id is, or is not, a row
Known(ids) == {i \in 1..Len(ids) : \E o \in observations : o.id = ids[i]}
Unknown(ids) == (1..Len(ids)) \ Known(ids)

(***************************************************************************)
(* C9: a batch exclude with a non-empty list of ids, the store not         *)
(* failing, succeeds whatever ids are unknown: every requested id that     *)
(* exists carries the requested flag afterwards, processed is the number   *)
(* of requested ids that exist, failed the number of requested ids that    *)
(* do not exist, and processed + failed is the length of the list.         *)
(***************************************************************************)
C9_Post ==
    LET r == resp'.request IN
    (r.ids # <<>> /\ ~r.fail) =>
        /\ resp'.status = 200
        /\ \A o \in observations' : o.id \in Range(r.ids) => o.excluded = r.excluded
        /\ resp'.body.processed = Cardinality(Known(r.ids))
        /\ resp'.body.failed = Cardinality(Unknown(r.ids))
        /\ resp'.body.processed + resp'.body.failed = Len(r.ids)

C9_BatchExcludeCountsPerId == [][IsExcludeManyStep => C9_Post]_vars

(***************************************************************************)
(* The cache driven by one caller: each operation runs to completion.      *)
(***************************************************************************)
CacheGet(key) ==
    /\ Respond([op |-> "get", key |-> key], 200,
               [value |-> SimpleCache_get(stats_cache, key, now)])
    /\ stats_cache' = SimpleCache_get_effect(stats_cache, key, now)
    /\ UNCHANGED <<store_vars, now, pc, local, session>>

CacheSet(key, value) ==
    /\ Respond([op |-> "set", key |-> key, value |-> value], 200,
               [value |-> None])
    /\ stats_cache' = SimpleCache_set(stats_cache, key, value, now)
    /\ UNCHANGED <<store_vars, now, pc, local, session>>

CacheDelete(key) ==
    /\ Respond([op |-> "delete", key |-> key], 200, [value |-> None])
    /\ stats_cache' = SimpleCache_delete(stats_cache, key)
    /\ UNCHANGED <<store_vars, now, pc, local, session>>

CacheClear ==
    /\ Respond([op |-> "clear"], 200, [value |-> None])
    /\ stats_cache' = SimpleCache_clear(stats_cache)
    /\ UNCHANGED <<store_vars, now, pc, local, session>>

CacheTick == \E t \in Instants : Tick(t)

CacheNext ==
    \/ \E k \in CacheKeys : CacheGet(k)
    \/ \E k \in CacheKeys, v \in CacheValues : CacheSet(k, v)
    \/ \E k \in CacheKeys : CacheDelete(k)
    \/ CacheClear
    \/ CacheTick

SpecCache == Init /\ [][CacheNext]_vars

(***************************************************************************)
(* C3: get(key) returns the stored value exactly when an entry for key     *)
(* exists and now - timestamp < 300; when the entry's age is >= 300 the    *)
(* get misses and removes the entry; a get on a live entry leaves the      *)
(* entry, timestamp included, as it was.                                   *)
(***************************************************************************)
Live(key) == key \in DOMAIN stats_cache /\ now - stats_cache[key].timestamp < 300

C3_GetPost(key) ==
    /\ Live(key) =>
          /\ resp'.body.value = <<stats_cache[key].value>>
          /\ key \in DOMAIN stats_cache'
          /\ stats_cache'[key] = stats_cache[key]
    /\ ~Live(key) =>
          /\ resp'.body.value = <<>>
          /\ key \notin DOMAIN stats_cache'
    /\ \A k \in DOMAIN stats_cache \ {key} :
          k \in DOMAIN stats_cache' /\ stats_cache'[k] = stats_cache[k]
    /\ DOMAIN stats_cache' \subseteq DOMAIN stats_cache

C3_GetReturnsLiveEntryOnly ==
    [][\A key \in CacheKeys : CacheGet(key) => C3_GetPost(key)]_vars

\* A get has served an entry that is one second short of the TTL.
C3_Witness ==
    /\ resp.request.op = "get"
    /\ resp.body.value # <<>>
    /\ resp.request.key \in DOMAIN stats_cache
    /\ now - stats_cache[resp.request.key].timestamp = ttl - 1
    /\ resp.body.value = <<stats_cache[resp.request.key].value>>

(***************************************************************************)
(* The cache shared by several worker threads.  SimpleCache holds no lock, *)
(* so a thread may be preempted between the steps of get and delete: the   *)
(* membership test, the subscript load, the expiry test and the del.       *)
(* dict's own operations (one subscript store, one del, clear) are atomic. *)
(***************************************************************************)
Frame(t, label, loc) ==
    /\ pc' = [pc EXCEPT ![t] = label]
    /\ local' = [local EXCEPT ![t] = loc]

Return(t, op, value) == Frame(t, "idle", <<[op |-> op, ret |-> value]>>)

\* get: `if key in self.cache`
T_get_contains(t, key) ==
    /\ pc[t] = "idle"
    /\ IF key \in DOMAIN stats_cache
       THEN Frame(t, "get_load", <<[key |-> key]>>)
       ELSE Return(t, "get", None)
    /\ UNCHANGED <<store_vars, stats_cache, now, resp, session>>

\* get: `value, timestamp = self.cache[key]`
T_get_load(t) ==
    /\ pc[t] = "get_load"
    /\ LET key == local[t][1].key IN
       IF key \in DOMAIN stats_cache
       THEN Frame(t, "get_check", <<[key |-> key,
                                    value |-> stats_cache[key].value,
                                    timestamp |-> stats_cache[key].timestamp]>>)
       ELSE Frame(t, "KeyError", <<[key |-> key]>>)
    /\ UNCHANGED <<store_vars, stats_cache, now, resp, session>>

\* get: `if datetime.utcnow() - timestamp < self.ttl: return value`
T_get_check(t) ==
    /\ pc[t] = "get_check"
    /\ IF NotExpired(local[t][1].timestamp, now)
       THEN Return(t, "get", Some(local[t][1].value))
       ELSE Frame(t, "get_del", <<[key |-> local[t][1].key]>>)
    /\ UNCHANGED <<store_vars, stats_cache, now, resp, session>>

\* get: `del self.cache[key]`, then `return None`
T_get_del(t) ==
    /\ pc[t] = "get_del"
    /\ LET key == local[t][1].key IN
       IF key \in DOMAIN stats_cache
       THEN /\ stats_cache' = DropKey(stats_cache, key)
            /\ Return(t, "get", None)
       ELSE /\ Frame(t, "KeyError", <<[key |-> key]>>)
            /\ UNCHANGED stats_cache
    /\ UNCHANGED <<store_vars, now, resp, session>>

\* set: `self.cache[key] = (value, datetime.utcnow())`
T_set(t, key, value) ==
    /\ pc[t] = "idle"
    /\ stats_cache' = SimpleCache_set(stats_cache, key, value, now)
    /\ Return(t, "set", None)
    /\ UNCHANGED <<store_vars, now, resp, session>>

\* delete: `if key in self.cache`
T_delete_contains(t, key) ==
    /\ pc[t] = "idle"
    /\ IF key \in DOMAIN stats_cache
       THEN Frame(t, "delete_del", <<[key |-> key]>>)
       ELSE Return(t, "delete", None)
    /\ UNCHANGED <<store_vars, stats_cache, now, resp, session>>

\* delete: `del self.cache[key]`
T_delete_del(t) ==
    /\ pc[t] = "delete_del"
    /\ LET key == local[t][1].key IN
       IF key \in DOMAIN stats_cache
       THEN /\ stats_cache' = DropKey(stats_cache, key)
            /\ Return(t, "delete", None)
       ELSE /\ Frame(t, "KeyError", <<[key |-> key]>>)
            /\ UNCHANGED stats_cache
    /\ UNCHANGED <<store_vars, now, resp, session>>

\* clear: `self.cache.clear()`
T_clear(t) ==
    /\ pc[t] = "idle"
    /\ stats_cache' = SimpleCache_clear(stats_cache)
    /\ Return(t, "clear", None)
    /\ UNCHANGED <<store_vars, now, resp, session>>

\* The KeyError leaves the cache operation and fails the request.
T_raise(t) ==
    /\ pc[t] = "KeyError"
    /\ Return(t, "raise", None)
    /\ UNCHANGED <<store_vars, stats_cache, now, resp, session>>

ThreadTick == Tick(ttl)

ThreadNext ==
    \/ \E t \in Threads :
          \/ T_get_contains(t, cache_key(1))
          \/ T_get_load(t)
          \/ T_get_check(t)
          \/ T_get_del(t)
          \/ \E v \in CacheValues : T_set(t, cache_key(1), v)
          \/ T_delete_contains(t, cache_key(1))
          \/ T_delete_del(t)
          \/ T_clear(t)
          \/ T_raise(t)
    \/ ThreadTick

SpecCacheThreads == Init /\ [][ThreadNext]_vars

(***************************************************************************)
(* C4: under every interleaving of get, set, delete and clear on one key   *)
(* by several threads, no cache operation raises, and a get returns a miss *)
(* or a value some set stored.                                             *)
(***************************************************************************)
C4_NoCacheOperationRaises ==
    /\ \A t \in Threads : pc[t] # "KeyError"
    /\ \A t \in Threads :
          (local[t] # <<>> /\ pc[t] = "idle" /\ local[t][1].op = "get")
             => local[t][1].ret \in {<<>>} \cup {<<v>> : v \in CacheValues}

(***************************************************************************)
(* calculate_convex_hull (src/app.py:1260-1346), one statement at a time.  *)
(*                                                                         *)
(* Geometries are points on a line, so the convex hull of a collection is  *)
(* the interval [lo, hi] it spans and its area is the interval's length.   *)
(* The hull of one coordinate is the degenerate hull PostGIS returns as a  *)
(* POINT; column convex_hulls.geometry is typed POLYGON (models.py:62)     *)
(* and refuses it.  Each statement of a request reads the rows committed   *)
(* so far; the request's own writes become visible at its commit.          *)
(***************************************************************************)
excluded_too(rows, project_id) ==
    {o.geometry[1].point :
        o \in {o \in RowsOf(rows, project_id) : o.geometry # None}}

\* WHERE project_id = :project_id AND geometry IS NOT NULL
\*   AND (excluded IS NULL OR excluded = FALSE)
non_excluded(rows, project_id) ==
    {o.geometry[1].point :
        o \in {o \in RowsOf(rows, project_id) : o.geometry # None /\ ~o.excluded}}

ST_ConvexHull(points) == [lo |-> Min(points), hi |-> Max(points)]

ST_Area(geom) == geom.hi - geom.lo

convex_hull_query_null_hull(rows, project_id) ==
    LET points == non_excluded(rows, project_id) IN
    IF points = {}
    THEN Some([hull_geom |-> [lo |-> 0, hi |-> -1], area_km2 |-> 0])
    ELSE Some([hull_geom |-> ST_ConvexHull(points),
               area_km2 |-> ST_Area(ST_ConvexHull(points))])

\* None when no geometry is collected, else the row (hull_geom, area_km2)
convex_hull_query(rows, project_id) ==
    LET points == non_excluded(rows, project_id) IN
    IF points = {}
    THEN None
    ELSE Some([hull_geom |-> ST_ConvexHull(points),
               area_km2 |-> ST_Area(ST_ConvexHull(points))])

\* session.query(ConvexHull).filter_by(project_id=project_id).first()
hull_rows(rows, project_id) ==
    FilterRows(rows, LAMBDA h : h.project_id = project_id)

existing_hull(rows, project_id) ==
    IF hull_rows(rows, project_id) = <<>>
    THEN None
    ELSE Some(hull_rows(rows, project_id)[1].id)

\* Geometry(geometry_type='POLYGON') admits the value
is_polygon(geom) == geom.lo < geom.hi

no_unique_violation(rows, project_id) == FALSE

\* project_id ... unique=True refuses a second row of the project
unique_violation(rows, project_id) == hull_rows(rows, project_id) # <<>>

update_hull_appending(rows, id, geom, area_km2, t) ==
    Append(rows, [id |-> id + 1,
                  project_id |-> (CHOOSE h \in Range(rows) : h.id = id).project_id,
                  geometry |-> geom, area_km2 |-> area_km2, calculated_at |-> t])

\* UPDATE convex_hulls SET ... WHERE id = :id
update_hull(rows, id, geom, area_km2, t) ==
    [i \in DOMAIN rows |->
        IF rows[i].id = id
        THEN [rows[i] EXCEPT !.geometry = geom, !.area_km2 = area_km2,
                             !.calculated_at = t]
        ELSE rows[i]]

\* INSERT INTO convex_hulls
insert_hull(rows, id, project_id, geom, area_km2, t) ==
    Append(rows, [id |-> id, project_id |-> project_id, geometry |-> geom,
                  area_km2 |-> area_km2, calculated_at |-> t])

HullRequest(project_id) ==
    [op |-> "calculate_convex_hull", project_id |-> project_id]

NoHull == [geometry |-> None, area_km2 |-> 0]

\* project_count = ...count(); 404 when the project has no observation
hull_count(t, project_id) ==
    /\ pc[t] = "idle"
    /\ IF RowsOf(observations, project_id) = {}
       THEN /\ Respond(HullRequest(project_id), 404, NoHull)
            /\ Frame(t, "idle", None)
       ELSE /\ Frame(t, "hull_query", Some([project_id |-> project_id]))
            /\ UNCHANGED resp
    /\ UNCHANGED <<store_vars, stats_cache, now, session>>

\* session.execute(convex_hull_query); 400 when there is no hull.  Field
\* seen records the geometries the statement read.
hull_query(t) ==
    /\ pc[t] = "hull_query"
    /\ LET project_id == local[t][1].project_id
           result == convex_hull_query(observations, project_id)
       IN IF result = None
          THEN /\ Respond(HullRequest(project_id), 400, NoHull)
               /\ Frame(t, "idle", None)
          ELSE /\ Frame(t, "hull_existing",
                        Some([project_id |-> project_id,
                              seen |-> non_excluded(observations, project_id),
                              hull_wkb |-> result[1].hull_geom,
                              area_km2 |-> result[1].area_km2]))
               /\ UNCHANGED resp
    /\ UNCHANGED <<store_vars, stats_cache, now, session>>

\* existing_hull = session.query(ConvexHull)...first()
hull_existing(t) ==
    /\ pc[t] = "hull_existing"
    /\ LET l == local[t][1] IN
       Frame(t, "hull_commit",
             Some([project_id |-> l.project_id, seen |-> l.seen,
                   hull_wkb |-> l.hull_wkb, area_km2 |-> l.area_km2,
                   existing_hull |-> existing_hull(convex_hulls, l.project_id)]))
    /\ UNCHANGED <<store_vars, stats_cache, now, resp, session>>

\* The flush of session.commit() is refused: a store failure, a value the
\* POLYGON column does not admit, an UPDATE whose row is gone, an INSERT
\* whose project is gone or already has its row.
commit_refused(l, fail) ==
    \/ fail
    \/ ~is_polygon(l.hull_wkb)
    \/ /\ l.existing_hull # None
       /\ \A i \in DOMAIN convex_hulls : convex_hulls[i].id # l.existing_hull[1]
    \/ /\ l.existing_hull = None
       /\ \/ l.project_id \notin projects
          \/ unique_violation(convex_hulls, l.project_id)

\* if existing_hull: ... else: session.add(new_hull); session.commit().
\* The sequence values a refused INSERT leaves unused are not modelled.
hull_commit(t, fail) ==
    /\ pc[t] = "hull_commit"
    /\ LET l == local[t][1] IN
       IF commit_refused(l, fail)
       THEN /\ Respond(HullRequest(l.project_id), 500, NoHull)
            /\ Frame(t, "idle", None)
            /\ UNCHANGED <<convex_hulls, hull_next_id>>
       ELSE IF l.existing_hull # None
       THEN /\ convex_hulls' = update_hull(convex_hulls, l.existing_hull[1],
                                           l.hull_wkb, l.area_km2, now)
            /\ Frame(t, "hull_respond", local[t])
            /\ UNCHANGED <<hull_next_id, resp>>
       ELSE /\ convex_hulls' = insert_hull(convex_hulls, hull_next_id,
                                           l.project_id, l.hull_wkb,
                                           l.area_km2, now)
            /\ hull_next_id' = hull_next_id + 1
            /\ Frame(t, "hull_respond", local[t])
            /\ UNCHANGED resp
    /\ UNCHANGED <<projects, observations, next_id, grid_cells, base_grid_cells,
                   parent_id, project_next_id, stats_cache, now, session>>

\* The row is read again for the geometry of the response; area_km2 is
\* the request's own value.
hull_respond(t) ==
    /\ pc[t] = "hull_respond"
    /\ LET l == local[t][1]
           again == hull_rows(convex_hulls, l.project_id)
       IN Respond(HullRequest(l.project_id), 200,
                  [geometry |-> IF again = <<>> THEN None
                                ELSE Some(again[1].geometry),
                   area_km2 |-> l.area_km2])
    /\ Frame(t, "idle", None)
    /\ UNCHANGED <<store_vars, stats_cache, now, session>>

(***************************************************************************)
(* Two workers serve calculate_convex_hull requests statement by           *)
(* statement while observations are saved, flagged and unflagged.          *)
(***************************************************************************)
HullFeatureLists ==
    {<<[geometry |-> PointGeometry(1)], [geometry |-> PointGeometry(3)]>>,
     <<[geometry |-> PointGeometry(2)]>>,
     <<[geometry |-> None]>>}

HullSave ==
    \E features \in HullFeatureLists :
        /\ Fits(features)
        /\ save_observations(1, "a", features, 0)

HullExclude ==
    \E obs_id \in {1, 2}, excluded \in BOOLEAN :
        set_observation_excluded(obs_id, excluded, FALSE)

HullExcludeMany == set_observations_excluded(<<1, 2>>, TRUE, FALSE)

HullNext ==
    \/ HullSave
    \/ HullExclude
    \/ HullExcludeMany
    \/ \E t \in Threads :
          \/ \E project_id \in ProjectIds : hull_count(t, project_id)
          \/ hull_query(t)
          \/ hull_existing(t)
          \/ \E fail \in BOOLEAN : hull_commit(t, fail)
          \/ hull_respond(t)

SpecHull == Init /\ [][HullNext]_vars

\* no project has two rows in convex_hulls
OneHullPerProject ==
    \A i, j \in DOMAIN convex_hulls :
        convex_hulls[i].project_id = convex_hulls[j].project_id => i = j

\* worker t commits its hull
IsHullCommitted(t) ==
    /\ \E fail \in BOOLEAN : hull_commit(t, fail)
    /\ pc'[t] = "hull_respond"

\* after the step the project's only row is the hull of the points
HullStoredOf(project_id, points) ==
    LET stored == hull_rows(convex_hulls', project_id) IN
    /\ Len(stored) = 1
    /\ points # {}
    /\ stored[1].geometry = [lo |-> Min(points), hi |-> Max(points)]
    /\ stored[1].area_km2 = Max(points) - Min(points)

C11_ConcurrentRecomputesBothSucceed ==
    [][\A t \in Threads :
        (/\ hull_commit(t, FALSE)
         /\ is_polygon(local[t][1].hull_wkb)
         /\ local[t][1].project_id \in projects)
        => /\ pc'[t] = "hull_respond"
           /\ HullStoredOf(local[t][1].project_id, local[t][1].seen)]_vars

\* no observation of the project has a geometry and is not excluded
NothingToCollect(project_id) ==
    \A o \in RowsOf(observations, project_id) : o.geometry = None \/ o.excluded

\* the request of worker t ends with an error and convex_hulls as it was
HullRefused(t, status) ==
    /\ resp'.request.op = "calculate_convex_hull"
    /\ resp'.status = status
    /\ ~resp'.success
    /\ pc'[t] = "idle"
    /\ UNCHANGED <<convex_hulls, hull_next_id>>

(***************************************************************************)
(* C12: calculate_convex_hull on a project without a non-excluded          *)
(* observation that has a geometry (no observation at all, all excluded,   *)
(* all geometries null) ends with an error response and leaves the hull    *)
(* rows as they were, and every stored hull is the hull of at least one    *)
(* point.                                                                  *)
(***************************************************************************)
C12_NoGeometryNoHull ==
    /\ [](\A i \in DOMAIN convex_hulls :
            /\ convex_hulls[i].geometry.lo <= convex_hulls[i].geometry.hi
            /\ convex_hulls[i].area_km2 =
                  convex_hulls[i].geometry.hi - convex_hulls[i].geometry.lo)
    /\ [][\A t \in Threads :
            /\ \A project_id \in ProjectIds :
                  (/\ hull_count(t, project_id)
                   /\ RowsOf(observations, project_id) = {})
                  => HullRefused(t, 404)
            /\ (hull_query(t) /\ NothingToCollect(local[t][1].project_id))
                  => HullRefused(t, 400)]_vars

\* A request for a project whose observations are all excluded or without
\* geometry has been refused while the project's earlier hull is stored.
C12_Witness ==
    /\ resp.request.op = "calculate_convex_hull"
    /\ resp.status = 400
    /\ RowsOf(observations, resp.request.project_id) # {}
    /\ NothingToCollect(resp.request.project_id)
    /\ \E o \in RowsOf(observations, resp.request.project_id) : o.geometry = None
    /\ \E o \in RowsOf(observations, resp.request.project_id) : o.excluded
    /\ hull_rows(convex_hulls, resp.request.project_id) # <<>>

\* the store without its excluded observations
Unexcluded(rows) == {o \in rows : ~o.excluded}

\* the store with every excluded observation that has a geometry moved to
\* point c
WithExcludedAt(rows, c) ==
    {IF o.excluded /\ o.geometry # None
     THEN [o EXCEPT !.geometry = Some([srid |-> 4326, point |-> c])]
     ELSE o : o \in rows}

Worker == CHOOSE t \in Threads : TRUE

WorkerIdle == pc[Worker] = "idle"

SeqSave == WorkerIdle /\ HullSave

SeqExclude == WorkerIdle /\ HullExclude

SeqTick == Tick(ttl)

SeqHull ==
    \/ \E project_id \in ProjectIds : hull_count(Worker, project_id)
    \/ hull_query(Worker)
    \/ hull_existing(Worker)
    \/ \E fail \in BOOLEAN : hull_commit(Worker, fail)
    \/ hull_respond(Worker)

SeqNext == SeqSave \/ SeqExclude \/ SeqTick \/ SeqHull

SpecHullSeq == Init /\ [][SeqNext]_vars

\* the last completed request is a successful recompute for the project
LastWasRecompute(project_id) ==
    /\ resp.request = HullRequest(project_id)
    /\ resp.status = 200

(***************************************************************************)
(* C14: hull recomputation is idempotent.  When a successful               *)
(* calculate_convex_hull request follows a successful one for the same     *)
(* project with no request that changes observations in between, it        *)
(* answers the same geometry and area_km2, and the project has exactly     *)
(* one hull row, holding that geometry and area.                           *)
(***************************************************************************)
C14_RecomputeIsIdempotent ==
    [][(hull_respond(Worker) /\ LastWasRecompute(local[Worker][1].project_id))
       => LET stored == hull_rows(convex_hulls', local[Worker][1].project_id)
          IN /\ resp'.status = 200
             /\ resp'.body.geometry = resp.body.geometry
             /\ resp'.body.area_km2 = resp.body.area_km2
             /\ Len(stored) = 1
             /\ Some(stored[1].geometry) = resp.body.geometry
             /\ stored[1].area_km2 = resp.body.area_km2]_vars

\* The second of two consecutive recomputes has committed at a later
\* instant: the row holds the hull the first one answered.
C14_Witness ==
    /\ pc[Worker] = "hull_respond"
    /\ LastWasRecompute(local[Worker][1].project_id)
    /\ local[Worker][1].existing_hull # None
    /\ Len(convex_hulls) = 1
    /\ convex_hulls[1].calculated_at > 0
    /\ Some(convex_hulls[1].geometry) = resp.body.geometry
    /\ convex_hulls[1].area_km2 = resp.body.area_km2

(***************************************************************************)
(* calculate_grid (src/app.py:1369-1407): in one transaction the           *)
(* project's grid cells are deleted and the base cells that intersect a    *)
(* non-excluded observation of the project are inserted.  A base cell is   *)
(* a closed unit interval, so a point on the border of two cells           *)
(* intersects both.                                                        *)
(***************************************************************************)
\* bg.geom_4326 && o.geometry AND ST_Intersects(bg.geom_4326, o.geometry)
ST_Intersects(geom, geometry) ==
    geom.lo <= geometry.point /\ geometry.point <= geom.hi

\* JOIN observations o ON o.project_id = :project_id
\*   AND o.geometry IS NOT NULL AND (o.excluded IS NULL OR o.excluded = FALSE)
\*   AND ...: the pairs (base cell, observation) of the join
grid_join(base, rows, project_id) ==
    {pair \in base \X {o \in RowsOf(rows, project_id) :
                          o.geometry # None /\ ~o.excluded} :
        ST_Intersects(pair[1].geom_4326, pair[2].geometry[1])}

\* the elements of a finite set, one after the other
RECURSIVE SetToSeq(_)
SetToSeq(S) ==
    IF S = {} THEN <<>>
    ELSE LET x == CHOOSE x \in S : TRUE
         IN <<x>> \o SetToSeq(S \ {x})

generation_rows_all(base, rows, project_id) ==
    LET q == SetToSeq(grid_join(base, rows, project_id))
    IN [i \in 1..Len(q) |-> [project_id |-> project_id,
                              geom |-> q[i][1].geom_4326]]

\* INSERT INTO grid_cells (project_id, geom) SELECT DISTINCT :project_id,
\* bg.geom_4326 FROM ...
generation_rows(base, rows, project_id) ==
    LET q == SetToSeq({pair[1].geom_4326 :
                          pair \in grid_join(base, rows, project_id)})
    IN [i \in 1..Len(q) |-> [project_id |-> project_id, geom |-> q[i]]]

\* SELECT COUNT(*) FROM grid_cells WHERE project_id = :project_id
cell_count(rows, project_id) ==
    Len(FilterRows(rows, LAMBDA g : g.project_id = project_id))

GridRequest(project_id, fail) ==
    [op |-> "calculate_grid", project_id |-> project_id, fail |-> fail]

\* DELETE FROM grid_cells WHERE project_id = :project_id, not yet committed
delete_grid_cells(rows, project_id) ==
    FilterRows(rows, LAMBDA g : g.project_id # project_id)

\* a rollback that keeps what the transaction has executed
session_rollback_partial(committed, pending) == pending

\* session.rollback(): the table is as it was committed
session_rollback(committed, pending) == committed

\* fail is a store failure of the INSERT or of the commit; an INSERT of
\* rows for a project that does not exist is refused by the foreign key.
calculate_grid(project_id, fail) ==
    LET inserted == generation_rows(base_grid_cells, observations, project_id)
        kept == delete_grid_cells(grid_cells, project_id)
    IN
    /\ IF fail \/ (inserted # <<>> /\ project_id \notin projects)
       THEN /\ grid_cells' = session_rollback(grid_cells, kept)
            /\ Respond(GridRequest(project_id, fail), 500, [cell_count |-> 0])
       ELSE /\ grid_cells' = kept \o inserted
            /\ Respond(GridRequest(project_id, fail), 200,
                       [cell_count |-> cell_count(kept \o inserted, project_id)])
    /\ UNCHANGED <<projects, observations, next_id, convex_hulls, hull_next_id,
                   base_grid_cells, parent_id, project_next_id,
                   stats_cache, now, pc, local, session>>

(***************************************************************************)
(* Grids of two projects are computed, one request at a time, while        *)
(* observations are saved, flagged and unflagged.                          *)
(***************************************************************************)
GridSave ==
    \E project_id \in ProjectIds, features \in HullFeatureLists :
        /\ Fits(features)
        /\ save_observations(project_id, "a", features, 0)

GridExclude == HullExclude

GridCalculate ==
    \E project_id \in ProjectIds, fail \in BOOLEAN :
        calculate_grid(project_id, fail)

GridNext == GridSave \/ GridExclude \/ GridCalculate

SpecGrid == Init /\ [][GridNext]_vars

\* the observations of the project that count for its grid
Eligible(project_id) ==
    {o \in RowsOf(observations, project_id) : o.geometry # None /\ ~o.excluded}

\* the cell and the observation's point have a point in common
Covers(cell, o) ==
    cell.lo <= o.geometry[1].point /\ o.geometry[1].point <= cell.hi

\* the geometries of the base cells
BaseCells == {b.geom_4326 : b \in base_grid_cells}

\* the cells stored for the project after the step
StoredCells(project_id) ==
    FilterRows(grid_cells', LAMBDA g : g.project_id = project_id)

C15_Post(project_id) ==
    LET stored == StoredCells(project_id) IN
    /\ \A i \in DOMAIN stored :
          /\ stored[i].geom \in BaseCells
          /\ \E o \in Eligible(project_id) : Covers(stored[i].geom, o)
    /\ \A b \in BaseCells :
          (\E o \in Eligible(project_id) : Covers(b, o))
          => \E i \in DOMAIN stored : stored[i].geom = b
    /\ \A o \in Eligible(project_id) :
          (\E b \in BaseCells : Covers(b, o))
          => \E i \in DOMAIN stored : Covers(stored[i].geom, o)
    /\ \A i, j \in DOMAIN stored : stored[i].geom = stored[j].geom => i = j
    /\ resp'.body.cell_count = Len(stored)
    /\ FilterRows(grid_cells', LAMBDA g : g.project_id # project_id)
          = FilterRows(grid_cells, LAMBDA g : g.project_id # project_id)

(***************************************************************************)
(* C15: after a successful calculate_grid(P) the grid cells stored for P   *)
(* are exactly the base cells that intersect an observation of P with a    *)
(* geometry and not excluded: every stored cell intersects one, every      *)
(* such observation inside the tiling is intersected by a stored cell,     *)
(* no base cell is stored twice, and a cell of the previous computation    *)
(* is stored only if it is in the new set.                                 *)
(***************************************************************************)
C15_GridIsTheIntersectingBaseCells ==
    [][\A project_id \in ProjectIds :
        (/\ \E fail \in BOOLEAN : calculate_grid(project_id, fail)
         /\ resp'.status = 200)
        => C15_Post(project_id)]_vars

\* A grid has been computed in which one cell holds two observations and
\* a base cell is left out that only an excluded observation touches.
C15_Witness ==
    /\ resp.request.op = "calculate_grid"
    /\ resp.status = 200
    /\ resp.body.cell_count >= 2
    /\ LET stored == FilterRows(grid_cells,
                                LAMBDA g : g.project_id = resp.request.project_id)
           P == resp.request.project_id
       IN /\ Len(stored) = resp.body.cell_count
          /\ \E i \in DOMAIN stored : \E o1, o2 \in Eligible(P) :
                o1 # o2 /\ Covers(stored[i].geom, o1) /\ Covers(stored[i].geom, o2)
          /\ \E o \in RowsOf(observations, P), b \in BaseCells :
                /\ o.excluded
                /\ o.geometry # None
                /\ Covers(b, o)
                /\ \A i \in DOMAIN stored : stored[i].geom # b

(***************************************************************************)
(* Projects with observations, a hull and a grid are deleted.  The hull    *)
(* is computed statement by statement by one worker, and a project may be  *)
(* deleted while its hull is being computed.                               *)
(***************************************************************************)
CascadeFeatureLists ==
    {<<[geometry |-> PointGeometry(1)], [geometry |-> PointGeometry(3)]>>,
     <<[geometry |-> PointGeometry(2)]>>}

CascadeSave ==
    \E project_id \in ProjectIds, features \in CascadeFeatureLists :
        /\ Fits(features)
        /\ save_observations(project_id, "a", features, 0)

CascadeGrid == \E project_id \in ProjectIds : calculate_grid(project_id, FALSE)

CascadeDelete ==
    \E project_id \in ProjectIds, fail \in BOOLEAN :
        delete_project(project_id, fail)

CascadeHull ==
    \/ \E project_id \in ProjectIds : WorkerIdle /\ hull_count(Worker, project_id)
    \/ hull_query(Worker)
    \/ hull_existing(Worker)
    \/ hull_commit(Worker, FALSE)
    \/ hull_respond(Worker)

CascadeNext == CascadeSave \/ CascadeGrid \/ CascadeDelete \/ CascadeHull

SpecCascade == Init /\ [][CascadeNext]_vars

\* no row of observations, convex_hulls or grid_cells names the project
NothingLeftOf(project_id) ==
    /\ RowsOf(observations, project_id) = {}
    /\ \A i \in DOMAIN convex_hulls : convex_hulls[i].project_id # project_id
    /\ \A i \in DOMAIN grid_cells : grid_cells[i].project_id # project_id

(***************************************************************************)
(* C16: after delete_project(P) has answered success the project row is   *)
(* gone and the store holds no observation, no convex hull row and no      *)
(* grid cell of P; no later request brings one back.                       *)
(***************************************************************************)
C16_DeleteProjectCascades ==
    /\ [](\A project_id \in ProjectIds :
            project_id \notin projects => NothingLeftOf(project_id))
    /\ [][\A project_id \in ProjectIds :
            (/\ \E fail \in BOOLEAN : delete_project(project_id, fail)
             /\ resp'.status = 200)
            => /\ project_id \in projects
               /\ project_id \notin projects'
               /\ resp'.body.deleted_observations =
                     Cardinality(RowsOf(observations, project_id))]_vars

\* A project that had observations and a hull has been deleted; the
\* other project keeps its observations, its hull and its grid cells.
C16_Witness ==
    /\ resp.request.op = "delete_project"
    /\ resp.status = 200
    /\ resp.body.deleted_observations >= 2
    /\ resp.request.project_id \notin projects
    /\ hull_next_id = 3
    /\ Len(convex_hulls) = 1
    /\ \E other \in projects :
          /\ RowsOf(observations, other) # {}
          /\ \E i \in DOMAIN grid_cells : grid_cells[i].project_id = other
          /\ \E i \in DOMAIN convex_hulls : convex_hulls[i].project_id = other

\* the project is no row of projects or has no observation
NothingToSummarise(project_id) ==
    project_id \notin projects \/ RowsOf(observations, project_id) = {}

(***************************************************************************)
(* C17: in every state reached by completed requests in which project P    *)
(* has no observation or does not exist, deleted projects and the          *)
(* children of deleted parents included, get_dataset_stats(P) answers      *)
(* not-found and no summary: none is computed and none is left in the      *)
(* cache to be served.                                                     *)
(***************************************************************************)
C17_NoObservationsNoSummary ==
    /\ [](\A project_id \in ProjectIds :
            NothingToSummarise(project_id)
            => cache_key(project_id) \notin DOMAIN stats_cache)
    /\ [][\A project_id \in ProjectIds :
            (get_dataset_stats(project_id, FALSE) /\ NothingToSummarise(project_id))
            => /\ resp'.status = 404
               /\ ~resp'.success
               /\ resp'.body.stats = None
               /\ stats_cache' = stats_cache]_vars

\* Statistics of a deleted parent project are refused while its former
\* child, left with its observations, has its summary cached.
C17_Witness ==
    /\ resp.request.op = "get_dataset_stats"
    /\ resp.status = 404
    /\ resp.request.project_id \notin projects
    /\ \E child \in projects :
          /\ parent_id[child] = None
          /\ child # resp.request.project_id
          /\ RowsOf(observations, child) # {}
          /\ cache_key(child) \in DOMAIN stats_cache

(***************************************************************************)
(* Writes that name project 1, a row of projects, and project 3, which is  *)
(* none, one request at a time.                                            *)
(***************************************************************************)
NamedProjects == {1, 3}

MissingSave ==
    \E project_id \in NamedProjects, features \in CascadeFeatureLists :
        /\ Fits(features)
        /\ save_observations(project_id, "a", features, 0)

\* a CSV file of one row with coordinates
OneRowCsv == <<[geometry |-> PointGeometry(1)]>>

MissingUpload ==
    \E project_id \in NamedProjects :
        /\ Fits(OneRowCsv)
        /\ upload_csv_to_project(project_id, "b", OneRowCsv, 0)

MissingDeleteDataset ==
    \E project_id \in NamedProjects, dataset_id \in DatasetIds :
        delete_dataset_from_project(project_id, dataset_id, FALSE)

MissingHull ==
    \/ \E project_id \in NamedProjects : hull_count(Worker, project_id)
    \/ WorkerIdle /\ get_dataset_stats(1, FALSE)
    \/ hull_query(Worker)
    \/ hull_existing(Worker)
    \/ hull_commit(Worker, FALSE)
    \/ hull_respond(Worker)

MissingGrid ==
    \E project_id \in NamedProjects :
        WorkerIdle /\ calculate_grid(project_id, FALSE)

MissingNext ==
    \/ WorkerIdle /\ MissingSave
    \/ WorkerIdle /\ MissingUpload
    \/ WorkerIdle /\ MissingDeleteDataset
    \/ MissingHull
    \/ MissingGrid

SpecMissing == Init /\ [][MissingNext]_vars

\* a request of one of the five kinds that names the project
IsWriteNaming(project_id) ==
    \/ \E features \in CascadeFeatureLists :
          save_observations(project_id, "a", features, 0)
    \/ upload_csv_to_project(project_id, "b", OneRowCsv, 0)
    \/ \E dataset_id \in DatasetIds :
          delete_dataset_from_project(project_id, dataset_id, FALSE)
    \/ hull_count(Worker, project_id)
    \/ calculate_grid(project_id, FALSE)

(***************************************************************************)
(* C18: save_observations, upload_csv_to_project,                          *)
(* delete_dataset_from_project, calculate_convex_hull and calculate_grid   *)
(* answer not-found to a request that names a project id that is no row    *)
(* of projects, and change neither the store nor the cache.                *)
(***************************************************************************)
C18_MissingProjectRejected ==
    [][\A project_id \in NamedProjects :
        (IsWriteNaming(project_id) /\ project_id \notin projects)
        => /\ resp'.status = 404
           /\ ~resp'.success
           /\ UNCHANGED <<store_vars, stats_cache>>]_vars

(***************************************************************************)
(* The body of POST /api/observations/exclude as it arrives                *)
(* (src/app.py:962-971).  The value of 'ids' is [list, truthy, items]: a   *)
(* JSON list of items, or another JSON value, truthy or not.  An item is   *)
(* [type, v]: the integer v, the float v + 0.5, a string of the digits of  *)
(* v, another string, or null.                                             *)
(***************************************************************************)
JsonItems ==
    [type : {"int", "float", "digits", "text", "null"}, v : {1, 2}]

JsonList(items) == [list |-> TRUE, truthy |-> items # <<>>, items |-> items]

JsonOther(truthy) == [list |-> FALSE, truthy |-> truthy, items |-> <<>>]

\* int(i) raises
int_raises(item) == item.type \in {"text", "null"}

\* int(i): the integer itself, a float truncated, a string of digits read
python_int(item) == item.v

\* ids = data.get('ids') or []; 400 unless a non-empty list whose items
\* int() accepts; then the handler runs on [int(i) for i in ids]
post_observations_exclude(value, excluded, fail) ==
    IF ~value.truthy \/ ~value.list
       \/ \E i \in DOMAIN value.items : int_raises(value.items[i])
    THEN /\ Respond([op |-> "set_observations_excluded", ids |-> <<>>,
                     excluded |-> excluded, fail |-> fail],
                    400, [processed |-> 0, failed |-> 0, updated_ids |-> {}])
         /\ UNCHANGED <<store_vars, stats_cache, now, pc, local, session>>
    ELSE set_observations_excluded(
             [i \in DOMAIN value.items |-> python_int(value.items[i])],
             excluded, fail)

(***************************************************************************)
(* Well-formed and malformed save and batch exclude requests, one at a     *)
(* time, with the statistics of project 1 read in between.                 *)
(***************************************************************************)
MalformedSave ==
    \E project_id \in {0, 1}, features \in SeqsUpTo(Features({None}), 2) :
        /\ Fits(features)
        /\ save_observations(project_id, "a", features, 0)

IdsValues ==
    {JsonList(items) : items \in SeqsUpTo(JsonItems, MaxIds)}
    \cup {JsonOther(truthy) : truthy \in BOOLEAN}

MalformedExclude ==
    \E value \in IdsValues, excluded \in BOOLEAN :
        post_observations_exclude(value, excluded, FALSE)

MalformedStats == get_dataset_stats(1, FALSE)

MalformedNext == MalformedSave \/ MalformedExclude \/ MalformedStats

SpecMalformed == Init /\ [][MalformedNext]_vars

\* the value of 'ids' is empty, no list, or holds an item that is no integer
MalformedIds(value) ==
    \/ ~value.list
    \/ value.items = <<>>
    \/ \E i \in DOMAIN value.items :
          value.items[i].type \in {"float", "text", "null"}

(***************************************************************************)
(* C19: save_observations without project_id or with an empty feature      *)
(* list, and set_observations_excluded with an ids value that is empty,    *)
(* no list or holds a non-integer, answer an error and leave the store     *)
(* and the cache as they were.                                             *)
(***************************************************************************)
C19_MalformedInputRejected ==
    [][/\ \A project_id \in {0, 1}, features \in SeqsUpTo(Features({None}), 2) :
            (/\ save_observations(project_id, "a", features, 0)
             /\ (project_id = 0 \/ features = <<>>))
            => /\ resp'.status = 400
               /\ ~resp'.success
               /\ UNCHANGED <<store_vars, stats_cache>>
       /\ \A value \in IdsValues, excluded \in BOOLEAN :
            (/\ post_observations_exclude(value, excluded, FALSE)
             /\ MalformedIds(value))
            => /\ resp'.status = 400
               /\ ~resp'.success
               /\ UNCHANGED <<store_vars, stats_cache>>]_vars

(***************************************************************************)
(* Statistics are requested, with and without a failing query, while       *)
(* observations are saved and the clock advances.                          *)
(***************************************************************************)
StatsSave ==
    \E project_id \in ProjectIds, features \in PlainFeatureLists :
        /\ Len(features) <= 2
        /\ Fits(features)
        /\ save_observations(project_id, "a", features, 0)

StatsGet ==
    \E project_id \in ProjectIds, fail \in BOOLEAN :
        get_dataset_stats(project_id, fail)

StatsTick == Tick(ttl)

StatsNext == StatsSave \/ StatsGet \/ StatsTick

SpecStats == Init /\ [][StatsNext]_vars

(***************************************************************************)
(* C20: when a query of get_dataset_stats fails, the request fails: the    *)
(* response is a failure without a summary, no field of which is filled    *)
(* in by a default, and the cache holds no entry for the project           *)
(* afterwards.                                                             *)
(***************************************************************************)
C20_FailedAggregateFailsRequest ==
    [][\A project_id \in ProjectIds :
        (/\ get_dataset_stats(project_id, TRUE)
         /\ SimpleCache_get(stats_cache, cache_key(project_id), now) = None)
        => /\ resp'.status = 500
           /\ ~resp'.success
           /\ resp'.body.stats = None
           /\ cache_key(project_id) \notin DOMAIN stats_cache'
           /\ \A key \in DOMAIN stats_cache' :
                 key \in DOMAIN stats_cache /\ stats_cache'[key] = stats_cache[key]
           /\ UNCHANGED store_vars]_vars

\* A request for a project with observations has failed on a query while
\* the summary of the other project stays cached.
C20_Witness ==
    /\ resp.request.op = "get_dataset_stats"
    /\ resp.request.fail
    /\ resp.status = 500
    /\ RowsOf(observations, resp.request.project_id) # {}
    /\ cache_key(resp.request.project_id) \notin DOMAIN stats_cache
    /\ DOMAIN stats_cache # {}

(***************************************************************************)
(* The Statistics Summary: observations with properties are saved one by   *)
(* one, excluded and included again, and summarised.                       *)
(***************************************************************************)
team_key(suffix) == <<"gathering.team", suffix>>

\* The properties of the features saved: four species and four observers,
\* individual counts that are integers, a text that is none, a JSON null
\* and a missing key, one and two team keys, a team key of JSON null.
LynxThree ==
    (species_key :> Some("Lynx lynx")) @@ (individual_count_key :> Some("3"))
    @@ (team_key("[0]") :> Some("Ann")) @@ (team_key("[1]") :> Some("Bob"))
    @@ (date_key :> Some("2020-05-01 10:00")) @@ (basis_key :> Some("HUMAN"))
    @@ (locality_key :> Some("Oulu"))
LynxNotANumber ==
    (species_key :> Some("Lynx lynx"))
    @@ (individual_count_key :> Some("not-a-number"))
    @@ (team_key("[0]") :> Some("Ann"))
VulpesSeven ==
    (species_key :> Some("Vulpes vulpes")) @@ (individual_count_key :> Some("7"))
    @@ (team_key("[0]") :> Some("Bob")) @@ (team_key("[1]") :> None)
    @@ (date_key :> Some("2019-12-31 23:59")) @@ (basis_key :> None)
AlcesNull ==
    (species_key :> Some("Alces alces")) @@ (individual_count_key :> None)
    @@ (team_key("[0]") :> Some("Cid")) @@ (team_key("[1]") :> Some("Ann"))
    @@ (date_key :> Some("2021-01-01")) @@ (locality_key :> Some("Oulu"))
UrsusZero ==
    (species_key :> Some("Ursus arctos")) @@ (individual_count_key :> Some("0"))
    @@ (team_key("Leader") :> Some("Dan")) @@ (locality_key :> Some("Inari"))
    @@ (basis_key :> Some("HUMAN"))

SummaryProps ==
    {EmptyProps, LynxThree, LynxNotANumber, VulpesSeven, AlcesNull, UrsusZero}

SummarySave ==
    \/ \E props \in SummaryProps :
          /\ Fits(<<props>>)
          /\ save_observations(1, "a", <<[geometry |-> None,
                                          properties |-> props]>>, 0)
    \/ /\ Fits(<<LynxThree>>)
       /\ save_observations(2, "a", <<[geometry |-> None,
                                       properties |-> LynxThree]>>, 0)

SummaryStats == get_dataset_stats(1, FALSE)

SummaryNext ==
    \/ SummarySave
    \/ SummaryStats

SpecSummary == Init /\ [][SummaryNext]_vars

(***************************************************************************)
(* The same with exclusion: the observations saved are excluded and        *)
(* included again, one by one and in a batch, and summarised.              *)
(***************************************************************************)
ToggleSave ==
    \E project_id \in ProjectIds,
       props \in {LynxThree, LynxNotANumber, VulpesSeven} :
          /\ project_id = 2 => props = LynxThree
          /\ Fits(<<props>>)
          /\ save_observations(project_id, "a",
                               <<[geometry |-> None, properties |-> props]>>, 0)

ToggleExclude ==
    \E excluded \in BOOLEAN : set_observation_excluded(1, excluded, FALSE)

ToggleExcludeMany == set_observations_excluded(<<1, 2>>, TRUE, FALSE)

ToggleStats == get_dataset_stats(1, FALSE)

ToggleNext ==
    \/ ToggleSave
    \/ ToggleExclude
    \/ ToggleExcludeMany
    \/ ToggleStats

SpecToggle == Init /\ [][ToggleNext]_vars

\* The step is the single or batch exclude request that resp' reports.
IsExcludeStep ==
    \/ /\ resp'.request.op = "set_observation_excluded"
       /\ set_observation_excluded(resp'.request.obs_id,
                                   resp'.request.excluded, resp'.request.fail)
    \/ /\ resp'.request.op = "set_observations_excluded"
       /\ set_observations_excluded(resp'.request.ids,
                                    resp'.request.excluded, resp'.request.fail)

(***************************************************************************)
(* C21: exclusion does not affect the statistics.  totalRecords counts     *)
(* every observation of the project, excluded or not, and a single or      *)
(* batch exclude request leaves unchanged, for every project, the          *)
(* Statistics Summaries get_dataset_stats may compute and whether its      *)
(* queries raise.                                                          *)
(***************************************************************************)
C21_ExclusionLeavesStatisticsUnchanged ==
    /\ [](\A p \in ProjectIds :
            ~individual_count_raises(observations, p) =>
               \A summary \in stats_summaries(observations, p) :
                  summary.totalRecords = Cardinality(RowsOf(observations, p)))
    /\ [][IsExcludeStep =>
            \A p \in ProjectIds :
               /\ individual_count_raises(observations', p)
                     = individual_count_raises(observations, p)
               /\ ~individual_count_raises(observations, p) =>
                     stats_summaries(observations', p)
                        = stats_summaries(observations, p)]_vars

\* An exclude request has changed an observation of a project whose rows
\* carry species, observers and individual counts, and the project has an
\* excluded and a not excluded row.
C21_Witness ==
    /\ resp.request.op \in {"set_observation_excluded", "set_observations_excluded"}
    /\ resp.status = 200
    /\ \E o, q \in RowsOf(observations, 1) :
          /\ o.excluded
          /\ astext(o.properties, <<"excluded", "">>) = Some("true")
          /\ astext(o.properties, species_key) # None
          /\ astext(o.properties, individual_count_key) # None
          /\ ~q.excluded
    /\ ~individual_count_raises(observations, 1)
    /\ observer_mentions(observations, 1) # {}

\* The rows of the project whose individualCount value parses as a
\* number, and those values.
ParsesAsNumber(o) ==
    /\ astext(o.properties, individual_count_key) # None
    /\ astext(o.properties, individual_count_key)[1] \in {"0", "3", "7"}

NumberOf(o) ==
    LET text == astext(o.properties, individual_count_key)[1] IN
    CASE text = "0" -> 0 [] text = "3" -> 3 [] text = "7" -> 7

ValidRows(project_id) ==
    {o \in RowsOf(observations, project_id) : ParsesAsNumber(o)}

\* stats is min, max, sum, average and count of the valid rows
IsStatsOfValidRows(stats, valid) ==
    /\ stats.count = Cardinality(valid)
    /\ \E o \in valid : NumberOf(o) = stats.min
    /\ \A o \in valid : NumberOf(o) >= stats.min
    /\ \E o \in valid : NumberOf(o) = stats.max
    /\ \A o \in valid : NumberOf(o) <= stats.max
    /\ stats.sum = sum_of(valid)
    /\ stats.average.num * stats.count = stats.sum * stats.average.den

(***************************************************************************)
(* C22: individualCountStats is computed over exactly the observations     *)
(* whose individualCount value parses as a number.  A get_dataset_stats    *)
(* request that finds no cached summary, for a project with observations   *)
(* and with no store failure, succeeds whatever values the rows hold:      *)
(* rows whose value is absent, null or not a number are ignored, min,      *)
(* max, sum, average and count are those of the valid rows, and the field  *)
(* is null when no row is valid.                                           *)
(***************************************************************************)
C22_IndividualCountOverValidRows ==
    [][\A project_id \in ProjectIds :
        (/\ get_dataset_stats(project_id, FALSE)
         /\ SimpleCache_get(stats_cache, cache_key(project_id), now) = None
         /\ project_id \in projects
         /\ RowsOf(observations, project_id) # {})
        => /\ resp'.status = 200
           /\ LET stats == resp'.body.stats[1].individualCountStats
                  valid == ValidRows(project_id)
              IN IF valid = {} THEN stats = None
                 ELSE stats # None /\ IsStatsOfValidRows(stats[1], valid)]_vars

\* The step is a get_dataset_stats request that computes a summary.
ComputesSummary(project_id) ==
    /\ get_dataset_stats(project_id, FALSE)
    /\ SimpleCache_get(stats_cache, cache_key(project_id), now) = None
    /\ resp'.status = 200

\* The non-null species values of the project and the occurrences of one.
SpeciesOf(project_id) ==
    {o.properties[species_key][1] :
        o \in {o \in RowsOf(observations, project_id) :
                  /\ species_key \in DOMAIN o.properties
                  /\ o.properties[species_key] # None}}

OccurrencesOf(project_id, species) ==
    Cardinality({o \in RowsOf(observations, project_id) :
                    /\ species_key \in DOMAIN o.properties
                    /\ o.properties[species_key] = Some(species)})

(***************************************************************************)
(* C23: in a summary computed by get_dataset_stats, uniqueSpecies is the   *)
(* number of distinct non-null species values of the project, and          *)
(* topSpecies lists at most top_limit distinct species of the project,     *)
(* each with its exact number of occurrences, in non-increasing order of   *)
(* count, and no species left out has a larger count than a listed one.    *)
(***************************************************************************)
C23_Post(project_id) ==
    LET summary == resp'.body.stats[1]
        top == summary.topSpecies
        listed == {top[i].species : i \in 1..Len(top)}
    IN /\ summary.uniqueSpecies = Cardinality(SpeciesOf(project_id))
       /\ Len(top) <= top_limit
       /\ \A i, j \in 1..Len(top) : i # j => top[i].species # top[j].species
       /\ \A i \in 1..Len(top) :
             /\ top[i].species \in SpeciesOf(project_id)
             /\ top[i].count = OccurrencesOf(project_id, top[i].species)
       /\ \A i \in 1..(Len(top) - 1) : top[i].count >= top[i + 1].count
       /\ \A species \in SpeciesOf(project_id) \ listed :
             \A i \in 1..Len(top) :
                OccurrencesOf(project_id, species) <= top[i].count

C23_TopSpeciesAreTheMostFrequent ==
    [][\A project_id \in ProjectIds :
          ComputesSummary(project_id) => C23_Post(project_id)]_vars

\* A summary has been computed for a project with more species than the
\* list holds, one of them more frequent than another that is listed.
C23_Witness ==
    /\ resp.request.op = "get_dataset_stats"
    /\ resp.status = 200
    /\ LET summary == resp.body.stats[1] IN
       /\ summary.uniqueSpecies > top_limit
       /\ Len(summary.topSpecies) = top_limit
       /\ summary.topSpecies[1].count > summary.topSpecies[top_limit].count
       /\ summary.uniqueSpecies = Cardinality(SpeciesOf(resp.request.project_id))

\* The (observation, key) pairs of the project whose key has the prefix
\* gathering.team and whose value is an observer, and the observers.
TeamKeys == {team_key(suffix) : suffix \in {"[0]", "[1]", "Leader"}}

MentionPairs(project_id) ==
    {pair \in RowsOf(observations, project_id) \X TeamKeys :
        /\ pair[2] \in DOMAIN pair[1].properties
        /\ pair[1].properties[pair[2]] # None}

ObserverOf(pair) == pair[1].properties[pair[2]][1]

ObserversOf(project_id) == {ObserverOf(pair) : pair \in MentionPairs(project_id)}

(***************************************************************************)
(* C24: in a summary computed by get_dataset_stats every key with the      *)
(* prefix gathering.team of every observation of the project contributes   *)
(* one observer mention, so one observation can contribute several: the    *)
(* count of an observer in topObservers is the number of (observation,     *)
(* key) pairs whose value it is, uniqueObservers is the number of          *)
(* distinct mentioned values, and topObservers has at most top_limit       *)
(* entries in non-increasing order of count.                               *)
(***************************************************************************)
C24_Post(project_id) ==
    LET summary == resp'.body.stats[1]
        top == summary.topObservers
    IN /\ summary.uniqueObservers = Cardinality(ObserversOf(project_id))
       /\ Len(top) <= top_limit
       /\ \A i \in 1..Len(top) :
             top[i].count =
                Cardinality({pair \in MentionPairs(project_id) :
                                ObserverOf(pair) = top[i].observer})
       /\ \A i \in 1..Len(top) : top[i].count >= 1
       /\ \A i \in 1..(Len(top) - 1) : top[i].count >= top[i + 1].count

C24_ObserversCountedPerKey ==
    [][\A project_id \in ProjectIds :
          ComputesSummary(project_id) => C24_Post(project_id)]_vars

\* A summary has been computed for a project with more observers than the
\* list holds, in which one observation mentions two observers and an
\* observation has a team key of JSON null and keys without the prefix;
\* the first observer listed is mentioned by two observations.
C24_Witness ==
    /\ resp.request.op = "get_dataset_stats"
    /\ resp.status = 200
    /\ LET project_id == resp.request.project_id
           summary == resp.body.stats[1]
       IN /\ summary.uniqueObservers > top_limit
          /\ Len(summary.topObservers) = top_limit
          /\ summary.topObservers[1].count = 2
          /\ \E pair, other \in MentionPairs(project_id) :
                /\ pair[1] = other[1]
                /\ pair[2] # other[2]
                /\ ObserverOf(pair) # ObserverOf(other)
          /\ \E o \in RowsOf(observations, project_id) :
                /\ team_key("[1]") \in DOMAIN o.properties
                /\ o.properties[team_key("[1]")] = None
          /\ summary.uniqueObservers = Cardinality(ObserversOf(project_id))

(***************************************************************************)
(* create_child_project (src/app.py:310-355).  fail is a store failure of  *)
(* the request: nothing is committed and the except branch answers 500.    *)
(***************************************************************************)
MaxProjects == 4    \* project rows ever inserted

\* data.get('name', '').strip()
strip(name) == IF name = " " THEN "" ELSE name

create_child_project(parent, name, fail) ==
    LET request == [op |-> "create_child_project", parent_id |-> parent,
                    name |-> name, fail |-> fail]
        child == project_next_id
    IN
    /\ IF strip(name) = ""
       THEN /\ Respond(request, 400, [project |-> None])
            /\ UNCHANGED <<projects, parent_id, project_next_id>>
       ELSE IF fail
       THEN /\ Respond(request, 500, [project |-> None])
            /\ UNCHANGED <<projects, parent_id, project_next_id>>
       ELSE IF parent \notin projects
       THEN /\ Respond(request, 404, [project |-> None])
            /\ UNCHANGED <<projects, parent_id, project_next_id>>
       ELSE /\ projects' = projects \cup {child}
            /\ parent_id' = [p \in projects \cup {child} |->
                                IF p = child THEN Some(parent) ELSE parent_id[p]]
            /\ project_next_id' = project_next_id + 1
            /\ Respond(request, 200,
                       [project |-> Some([id |-> child, parent_id |-> parent])])
    /\ UNCHANGED <<observations, next_id, convex_hulls, hull_next_id,
                   grid_cells, base_grid_cells, stats_cache, now, pc, local,
                   session>>

(***************************************************************************)
(* The project hierarchy: from the seeded projects, none of which has a    *)
(* parent, child projects are created and observations are saved and       *)
(* uploaded.                                                               *)
(***************************************************************************)
\* populate_projects_from_json: Project(name=name, description='')
InitSeeded ==
    /\ projects = ProjectIds
    /\ observations = {}
    /\ next_id = 1
    /\ convex_hulls = <<>>
    /\ hull_next_id = 1
    /\ grid_cells = <<>>
    /\ base_grid_cells = insert_base_grid({})
    /\ parent_id = [p \in ProjectIds |-> None]
    /\ project_next_id = 3
    /\ stats_cache = EmptyCache
    /\ now = 0
    /\ resp = NoResp
    /\ pc = [t \in Threads |-> "idle"]
    /\ local = [t \in Threads |-> None]
    /\ session = [c \in Clients |-> EmptySession]

HierarchyCreate ==
    \E parent \in 1..(MaxProjects + 1), name \in {" ", "child"}, fail \in BOOLEAN :
        /\ project_next_id <= MaxProjects
        /\ create_child_project(parent, name, fail)

HierarchySave ==
    \E project_id \in 1..MaxProjects :
        /\ Fits(<<[geometry |-> None]>>)
        /\ save_observations(project_id, "a", <<[geometry |-> None]>>, 0)

HierarchyUpload ==
    \E project_id \in 1..MaxProjects :
        /\ Fits(OneRowCsv)
        /\ upload_csv_to_project(project_id, "b", OneRowCsv, 0)

HierarchyNext ==
    \/ HierarchyCreate
    \/ HierarchySave
    \/ HierarchyUpload

SpecHierarchy == InitSeeded /\ [][HierarchyNext]_vars

\* the child projects of a project
children(project_id) == {c \in projects : parent_id[c] = Some(project_id)}

(***************************************************************************)
(* C25: in every state reachable through create_child_project,             *)
(* save_observations and upload_csv_to_project, a project that has at      *)
(* least one child project owns no observations.                           *)
(***************************************************************************)
C25_ParentOwnsNoObservations ==
    \A p \in projects :
        children(p) # {} => RowsOf(observations, p) = {}

(***************************************************************************)
(* C26: nesting is at most one level deep: in every reachable state no     *)
(* project with a parent is itself the parent of another project.          *)
(***************************************************************************)
C26_NestingOneLevelDeep ==
    \A c \in projects :
        parent_id[c] # None => children(c) = {}

(***************************************************************************)
(* Observations are saved, uploaded, flagged and deleted while hulls and   *)
(* grids are computed and projects deleted.                                *)
(***************************************************************************)
DerivedSave ==
    \E features \in CascadeFeatureLists :
        /\ Fits(features)
        /\ save_observations(1, "a", features, 0)

DerivedUpload ==
    /\ Fits(OneRowCsv)
    /\ upload_csv_to_project(2, "b", OneRowCsv, 0)

DerivedDeleteDataset ==
    \E project_id \in ProjectIds : delete_dataset_from_project(project_id, "a", FALSE)

DerivedExclude ==
    \E excluded \in BOOLEAN : set_observation_excluded(1, excluded, FALSE)

DerivedExcludeMany == set_observations_excluded(<<1, 2>>, TRUE, FALSE)

DerivedHull ==
    \/ \E project_id \in ProjectIds : WorkerIdle /\ hull_count(Worker, project_id)
    \/ hull_query(Worker)
    \/ hull_existing(Worker)
    \/ hull_commit(Worker, FALSE)
    \/ hull_respond(Worker)

DerivedGrid == \E project_id \in ProjectIds : calculate_grid(project_id, FALSE)

DerivedDeleteProject == \E project_id \in ProjectIds : delete_project(project_id, FALSE)

DerivedNext ==
    \/ DerivedSave
    \/ DerivedUpload
    \/ DerivedDeleteDataset
    \/ DerivedExclude
    \/ DerivedExcludeMany
    \/ DerivedHull
    \/ DerivedGrid
    \/ DerivedDeleteProject

SpecDerived == Init /\ [][DerivedNext]_vars

\* The step is the request on observations that resp' reports: an insert,
\* a dataset delete or a single or batch exclude.
IsObservationWrite ==
    LET r == resp'.request IN
    \/ /\ r.op = "save_observations"
       /\ save_observations(r.project_id, r.dataset_id, r.features, r.fail_at)
    \/ /\ r.op = "upload_csv_to_project"
       /\ upload_csv_to_project(r.project_id, r.dataset_id, r.rows, r.fail_at)
    \/ /\ r.op = "delete_dataset_from_project"
       /\ delete_dataset_from_project(r.project_id, r.dataset_id, r.fail)
    \/ IsExcludeStep

\* The step is the commit of a hull, a grid calculation or a project delete.
IsRecomputation ==
    \/ \E t \in Threads, fail \in BOOLEAN : hull_commit(t, fail)
    \/ \E project_id \in ProjectIds, fail \in BOOLEAN : calculate_grid(project_id, fail)
    \/ \E project_id \in ProjectIds, fail \in BOOLEAN : delete_project(project_id, fail)

(***************************************************************************)
(* C27: derived artifacts change only on explicit recomputation.  An       *)
(* insert, an upload, a dataset delete and a single or batch exclude       *)
(* leave the convex hull rows and the grid cell rows of every project      *)
(* unchanged; these rows change only through calculate_convex_hull,        *)
(* calculate_grid or delete_project.                                       *)
(***************************************************************************)
C27_DerivedRowsChangeOnlyOnRecomputation ==
    [][/\ IsObservationWrite => UNCHANGED <<convex_hulls, grid_cells>>
       /\ (convex_hulls' # convex_hulls \/ grid_cells' # grid_cells)
             => IsRecomputation]_vars

\* A dataset of a project with a hull and grid cells has been deleted and
\* the project has no observation left: its hull and its cells are still
\* stored.
C27_Witness ==
    /\ resp.request.op = "delete_dataset_from_project"
    /\ resp.status = 200
    /\ resp.body.deleted_observations > 0
    /\ RowsOf(observations, resp.request.project_id) = {}
    /\ \E i \in DOMAIN convex_hulls :
          convex_hulls[i].project_id = resp.request.project_id
    /\ \E i \in DOMAIN grid_cells :
          grid_cells[i].project_id = resp.request.project_id

(***************************************************************************)
(* C28: calculate_grid is atomic with respect to store errors: the delete  *)
(* of the prior grid cells and the insert of the new ones are committed    *)
(* together, so when the insert fails the delete is rolled back, the grid  *)
(* cells stored are exactly those stored before the request, and the       *)
(* response reports failure.                                               *)
(***************************************************************************)
C28_FailedGridKeepsPriorCells ==
    [][\A project_id \in ProjectIds :
          calculate_grid(project_id, TRUE)
          => /\ grid_cells' = grid_cells
             /\ resp'.status = 500
             /\ ~resp'.success
             /\ UNCHANGED store_vars]_vars

\* A calculate_grid request has failed for a project that keeps the cells
\* of an earlier computation, which are no longer the cells a computation
\* would store.
C28_Witness ==
    /\ resp.request.op = "calculate_grid"
    /\ resp.request.fail
    /\ resp.status = 500
    /\ cell_count(grid_cells, resp.request.project_id) > 0
    /\ delete_grid_cells(grid_cells, resp.request.project_id) # grid_cells
    /\ cell_count(grid_cells, resp.request.project_id) #
          Len(generation_rows(base_grid_cells, observations,
                              resp.request.project_id))

(***************************************************************************)
(* init_db (src/models.py:203-261), run by the worker when the process     *)
(* starts (src/app.py:73-74), one statement group at a time.  Each attempt *)
(* creates the tables and looks for the five required ones: outcome is     *)
(* "raises" when a statement of the attempt raises, "missing" when a       *)
(* table is not found, "all_exist" otherwise.  The sleep between attempts  *)
(* is not modelled.                                                        *)
(***************************************************************************)
max_retries == 3

\* one attempt more than max_retries
retry_once_more(attempt) == attempt < max_retries

\* if attempt < max_retries - 1
may_retry(attempt) == attempt < max_retries - 1

\* with app.app_context(): init_db(), in a process that starts with an
\* empty stats_cache; for attempt in range(max_retries)
init_db_call ==
    /\ pc[Worker] \in {"idle", "init_returned", "init_raised"}
    /\ pc' = [pc EXCEPT ![Worker] = "init_attempt"]
    /\ local' = [local EXCEPT ![Worker] = Some([op |-> "init_db", attempt |-> 0])]
    /\ stats_cache' = SimpleCache_clear(stats_cache)
    /\ UNCHANGED <<store_vars, now, resp, session>>

init_db_attempt(outcome) ==
    /\ pc[Worker] = "init_attempt"
    /\ LET attempt == local[Worker][1].attempt IN
       IF outcome = "all_exist"
       THEN /\ pc' = [pc EXCEPT ![Worker] = "init_base_grid"]
            /\ UNCHANGED local
       ELSE IF may_retry(attempt)
       THEN /\ local' = [local EXCEPT ![Worker][1].attempt = attempt + 1]
            /\ UNCHANGED pc
       ELSE /\ pc' = [pc EXCEPT ![Worker] = "init_raised"]
            /\ UNCHANGED local
    /\ UNCHANGED <<store_vars, stats_cache, now, resp, session>>

\* a test that never finds the table filled
base_grid_exists_never(rows) == FALSE

\* base_count and int(base_count) > 0
base_grid_exists(rows) == Cardinality(rows) > 0

\* create_base_grid_if_missing (src/models.py:107-149): the table it
\* leaves; fail is a store failure of its INSERT or commit
create_base_grid_if_missing(rows, fail) ==
    IF base_grid_exists(rows) THEN rows
    ELSE IF fail THEN rows
    ELSE insert_base_grid(rows)

\* try: create_base_grid_if_missing() except Exception: print warning
init_db_base_grid(fail) ==
    /\ pc[Worker] = "init_base_grid"
    /\ base_grid_cells' = create_base_grid_if_missing(base_grid_cells, fail)
    /\ pc' = [pc EXCEPT ![Worker] = "init_populate"]
    /\ UNCHANGED <<projects, observations, next_id, convex_hulls, hull_next_id,
                   grid_cells, parent_id, project_next_id,
                   stats_cache, now, resp, local, session>>

\* populate_projects_from_json (src/models.py:152-200): as many projects
\* as the JSON file names, none with a parent; fail is a failure of
\* reading the file or of the store, which the function swallows
init_db_populate(fail) ==
    /\ pc[Worker] = "init_populate"
    /\ IF projects # {} \/ fail
       THEN UNCHANGED <<projects, parent_id, project_next_id>>
       ELSE LET last == project_next_id + Cardinality(ProjectIds) - 1 IN
            /\ projects' = project_next_id..last
            /\ parent_id' = [p \in project_next_id..last |-> None]
            /\ project_next_id' = last + 1
    /\ pc' = [pc EXCEPT ![Worker] = "init_migrate"]
    /\ UNCHANGED <<observations, next_id, convex_hulls, hull_next_id,
                   grid_cells, base_grid_cells, stats_cache, now, resp, local,
                   session>>

\* (properties->>'excluded')::boolean: the texts the store's boolean input
\* accepts in the model
boolin == ("true" :> TRUE) @@ ("false" :> FALSE)

\* WHERE properties ? 'excluded' AND (properties->>'excluded') IS NOT NULL
has_excluded_key(o) == astext(o.properties, <<"excluded", "">>) # None

backfill_raises(rows) ==
    \E o \in rows :
        /\ has_excluded_key(o)
        /\ astext(o.properties, <<"excluded", "">>)[1] \notin DOMAIN boolin

\* UPDATE observations SET excluded = (properties->>'excluded')::boolean ...
backfill(rows) ==
    {IF has_excluded_key(o)
     THEN [o EXCEPT !.excluded = boolin[astext(o.properties, <<"excluded", "">>)[1]]]
     ELSE o : o \in rows}

\* the migration of the excluded column inside its try, then return
init_db_migrate(fail) ==
    /\ pc[Worker] = "init_migrate"
    /\ observations' = IF fail \/ backfill_raises(observations)
                       THEN observations
                       ELSE backfill(observations)
    /\ pc' = [pc EXCEPT ![Worker] = "init_returned"]
    /\ UNCHANGED <<projects, next_id, convex_hulls, hull_next_id, grid_cells,
                   base_grid_cells, parent_id, project_next_id,
                   stats_cache, now, resp, local, session>>

(***************************************************************************)
(* Startup: the process starts on an empty database, runs init_db and,     *)
(* once init_db has returned, serves requests; it may be started again.    *)
(***************************************************************************)
InitStartup ==
    /\ projects = {}
    /\ observations = {}
    /\ next_id = 1
    /\ convex_hulls = <<>>
    /\ hull_next_id = 1
    /\ grid_cells = <<>>
    /\ base_grid_cells = {}
    /\ parent_id = [p \in {} |-> None]
    /\ project_next_id = 1
    /\ stats_cache = EmptyCache
    /\ now = 0
    /\ resp = NoResp
    /\ pc = [t \in Threads |-> "idle"]
    /\ local = [t \in Threads |-> None]
    /\ session = [c \in Clients |-> EmptySession]

Serving == pc[Worker] = "init_returned"

\* A process starts while the projects serial leaves room for the seeds.
StartupCall ==
    /\ projects # {} \/ project_next_id + Cardinality(ProjectIds) - 1 <= MaxProjects
    /\ init_db_call

StartupAttempt ==
    \E outcome \in {"raises", "missing", "all_exist"} : init_db_attempt(outcome)

StartupBaseGrid == \E fail \in BOOLEAN : init_db_base_grid(fail)

StartupPopulate == \E fail \in BOOLEAN : init_db_populate(fail)

StartupMigrate == \E fail \in BOOLEAN : init_db_migrate(fail)

StartupSave ==
    /\ Serving
    /\ Fits(OneRowCsv)
    /\ save_observations(1, "a", OneRowCsv, 0)

StartupExclude ==
    /\ Serving
    /\ \E excluded \in BOOLEAN : set_observation_excluded(1, excluded, FALSE)

StartupGrid == Serving /\ calculate_grid(1, FALSE)

StartupDelete ==
    /\ Serving
    /\ \E project_id \in 1..MaxProjects : delete_project(project_id, FALSE)

InitDbStep ==
    \/ StartupAttempt
    \/ StartupBaseGrid
    \/ StartupPopulate
    \/ StartupMigrate

StartupNext ==
    \/ StartupCall
    \/ InitDbStep
    \/ StartupSave
    \/ StartupExclude
    \/ StartupGrid
    \/ StartupDelete

\* A started init_db keeps running: the worker executes its next statement.
SpecStartup == InitStartup /\ [][StartupNext]_vars /\ WF_vars(InitDbStep)

InsideInitDb ==
    pc[Worker] \in {"init_attempt", "init_base_grid", "init_populate", "init_migrate"}

(***************************************************************************)
(* C29: init_db terminates after a bounded number of attempts.  It makes   *)
(* at most max_retries attempts; an attempt that finds all required        *)
(* tables goes on to return, a failed attempt is followed by another       *)
(* unless it is the last, and the last failed attempt raises; a failure    *)
(* of the base-grid creation, of the project seeding or of the             *)
(* excluded-column migration inside the successful attempt causes no       *)
(* retry and does not abort: init_db returns.  Every init_db call          *)
(* eventually returns or raises.                                           *)
(***************************************************************************)
C29_InitDbTerminates ==
    /\ [](InsideInitDb => local[Worker][1].attempt \in 0..(max_retries - 1))
    /\ [][\A outcome \in {"raises", "missing", "all_exist"} :
            init_db_attempt(outcome) =>
               LET attempt == local[Worker][1].attempt IN
               /\ outcome = "all_exist" => pc'[Worker] = "init_base_grid"
               /\ (outcome # "all_exist" /\ attempt + 1 < max_retries) =>
                     /\ pc'[Worker] = "init_attempt"
                     /\ local'[Worker][1].attempt = attempt + 1
               /\ (outcome # "all_exist" /\ attempt + 1 = max_retries) =>
                     pc'[Worker] = "init_raised"]_vars
    /\ [][(pc[Worker] \in {"init_base_grid", "init_populate", "init_migrate"}
           /\ pc'[Worker] # pc[Worker]) =>
             /\ pc'[Worker] \in {"init_populate", "init_migrate", "init_returned"}
             /\ local'[Worker] = local[Worker]]_vars
    /\ [][pc'[Worker] = "init_raised" /\ pc[Worker] # "init_raised" =>
             /\ pc[Worker] = "init_attempt"
             /\ local[Worker][1].attempt = max_retries - 1]_vars
    /\ (pc[Worker] = "init_attempt") ~> (pc[Worker] \in {"init_returned", "init_raised"})

\* init_db is in its last permitted attempt, which has found the tables,
\* failed to create the base grid and to seed the projects, and goes on.
C29_Witness ==
    /\ pc[Worker] = "init_migrate"
    /\ local[Worker][1].attempt = max_retries - 1
    /\ base_grid_cells = {}
    /\ projects = {}

(***************************************************************************)
(* C30: the base tiling is created once and then immutable.                *)
(* create_base_grid_if_missing inserts cells only when base_grid_cells is  *)
(* empty, so repeated init_db runs leave the rows the first insert         *)
(* created, each cell of the tiling once, and no request handler inserts,  *)
(* updates or deletes a base_grid_cells row.                               *)
(***************************************************************************)
C30_BaseGridCreatedOnce ==
    /\ [](base_grid_cells = {} \/ base_grid_cells = insert_base_grid({}))
    /\ [][base_grid_cells' # base_grid_cells =>
             /\ base_grid_cells = {}
             /\ init_db_base_grid(FALSE)]_vars

\* A later init_db run has passed its base-grid step with the tiling of an
\* earlier run in place, which a grid calculation served in between used.
C30_Witness ==
    /\ pc[Worker] = "init_populate"
    /\ base_grid_cells = insert_base_grid({})
    /\ resp.request.op = "calculate_grid"
    /\ resp.status = 200
    /\ resp.body.cell_count > 0

(***************************************************************************)
(* The query parameters of get_observations (src/app.py:829-850).  An      *)
(* argument is None when the request does not carry it.  The docstring's   *)
(* "default: 1000, max: 5000" are scaled down with the store.              *)
(***************************************************************************)
per_page_default == 1   \* 1000 in the code
per_page_max == 2       \* 5000 in the docstring

\* request.args.get(name, default, type=int)
args_get(arg, default) == IF arg = None THEN default ELSE arg[1]

\* page = request.args.get('page', 1, type=int)
\* per_page = request.args.get('per_page', 1000, type=int)
\* 'limit': per_page -- the value of the request, as it came
get_observations_args(project_id, page_arg, per_page_arg) ==
    get_observations(project_id, args_get(page_arg, 1),
                     args_get(per_page_arg, per_page_default))

PerPageSave ==
    \E project_id \in ProjectIds, dataset_id \in DatasetIds,
       features \in PlainFeatureLists :
        /\ Len(features) <= 2
        /\ Fits(features)
        /\ save_observations(project_id, dataset_id, features, 0)

PerPageGet ==
    \E project_id \in ProjectIds,
       page_arg \in {None, Some(1), Some(2)},
       per_page_arg \in {None} \cup {Some(n) : n \in 1..MaxPerPage} :
        get_observations_args(project_id, page_arg, per_page_arg)

PerPageNext == PerPageSave \/ PerPageGet

SpecPerPage == Init /\ [][PerPageNext]_vars

(***************************************************************************)
(* C31: one page of get_observations never carries more records than the   *)
(* documented maximum of per_page, whatever per_page the request supplies. *)
(***************************************************************************)
C31_PageNeverExceedsMaximum ==
    resp.request.op = "get_observations"
    => Len(resp.body.features) <= per_page_max

(***************************************************************************)
(* C32: a successful save_observations cuts the feature list into          *)
(* consecutive chunks of at most chunk_size features in input order and    *)
(* inserts every feature exactly once, equal features included: the        *)
(* project gains exactly len(features) observations, one per feature, and  *)
(* the reported count is len(features).                                    *)
(***************************************************************************)
\* chunk k of the loop `for i in range(0, len(features), chunk_size)`
ChunkOf(features, k) == chunk_at(features, (k - 1) * chunk_size)

RECURSIVE ConcatChunks(_, _)
ConcatChunks(features, n) ==
    IF n = 0 THEN <<>>
    ELSE ConcatChunks(features, n - 1) \o ChunkOf(features, n)

C32_Post(r) ==
    resp'.status = 200 =>
        LET new == observations' \ observations IN
        /\ ConcatChunks(r.features, num_chunks(r.features)) = r.features
        /\ \A k \in 1..num_chunks(r.features) :
              /\ Len(ChunkOf(r.features, k)) >= 1
              /\ Len(ChunkOf(r.features, k)) <= chunk_size
        /\ observations \subseteq observations'
        /\ new = {ExpectedRow(r, j) : j \in 1..Len(r.features)}
        /\ Cardinality(new) = Len(r.features)
        /\ Cardinality(RowsOf(observations', r.project_id)) =
              Cardinality(RowsOf(observations, r.project_id)) + Len(r.features)
        /\ resp'.body.count = Len(r.features)

C32_EveryFeatureInsertedOnce == [][IsSaveStep => C32_Post(resp'.request)]_vars

\* A request of more than one chunk whose features are all equal has
\* succeeded on a project that held observations already.
C32_Witness ==
    /\ resp.request.op = "save_observations"
    /\ resp.status = 200
    /\ Len(resp.request.features) = chunk_size + 1
    /\ \A j \in 1..Len(resp.request.features) :
          resp.request.features[j] = resp.request.features[1]
    /\ resp.body.count = chunk_size + 1
    /\ Cardinality(RowsOf(observations, resp.request.project_id)) > chunk_size + 1

\* The step is the upload_csv_to_project request that resp' reports.
IsUploadStep ==
    /\ resp'.request.op = "upload_csv_to_project"
    /\ upload_csv_to_project(resp'.request.project_id, resp'.request.dataset_id,
                             resp'.request.rows, resp'.request.fail_at)

(***************************************************************************)
(* C33: a save_observations or upload_csv_to_project request that fails    *)
(* after it committed at least one chunk has deleted the cache key         *)
(* stats:P of its project when it answers.                                 *)
(***************************************************************************)
C33_PartialFailureBustsCache ==
    [][(/\ IsSaveStep \/ IsUploadStep
        /\ resp'.status = 500
        /\ observations' # observations)
       => cache_key(resp'.request.project_id) \notin DOMAIN stats_cache']_vars

(***************************************************************************)
(* get_dataset_stats statement by statement (src/app.py:1038-1217), for    *)
(* workers that serve it while other requests commit.  The aggregate       *)
(* queries of one request are taken as one read of the store.              *)
(***************************************************************************)
StatsRequest(project_id) ==
    [op |-> "get_dataset_stats", project_id |-> project_id, fail |-> FALSE]

\* cached_result = stats_cache.get(cache_key); if cached_result: return
stats_lookup(t, project_id) ==
    LET key == cache_key(project_id)
        cached_result == SimpleCache_get(stats_cache, key, now)
    IN
    /\ pc[t] = "idle"
    /\ stats_cache' = SimpleCache_get_effect(stats_cache, key, now)
    /\ IF cached_result # None
       THEN /\ Respond(StatsRequest(project_id), 200, [stats |-> cached_result])
            /\ Frame(t, "idle", None)
       ELSE /\ Frame(t, "stats_queries", Some([project_id |-> project_id]))
            /\ UNCHANGED resp
    /\ UNCHANGED <<store_vars, now, session>>

\* project, total and the aggregate queries; result = {...}
stats_queries(t) ==
    /\ pc[t] = "stats_queries"
    /\ LET project_id == local[t][1].project_id IN
       IF \/ project_id \notin projects
          \/ total_records(observations, project_id) = 0
       THEN /\ Respond(StatsRequest(project_id), 404, [stats |-> None])
            /\ Frame(t, "idle", None)
       ELSE IF individual_count_raises(observations, project_id)
       THEN /\ Respond(StatsRequest(project_id), 500, [stats |-> None])
            /\ Frame(t, "idle", None)
       ELSE \E result \in stats_summaries(observations, project_id) :
              /\ Frame(t, "stats_set",
                       Some([project_id |-> project_id, result |-> result]))
              /\ UNCHANGED resp
    /\ UNCHANGED <<store_vars, stats_cache, now, session>>

\* stats_cache.set(cache_key, result); return jsonify(result)
stats_set(t) ==
    /\ pc[t] = "stats_set"
    /\ LET l == local[t][1] IN
       /\ stats_cache' = SimpleCache_set(stats_cache, cache_key(l.project_id),
                                         l.result, now)
       /\ Respond(StatsRequest(l.project_id), 200, [stats |-> Some(l.result)])
    /\ Frame(t, "idle", None)
    /\ UNCHANGED <<store_vars, now, session>>

(***************************************************************************)
(* Two workers serve get_dataset_stats statement by statement while        *)
(* observations are saved and datasets and projects are deleted.           *)
(***************************************************************************)
RaceSave ==
    \E project_id \in ProjectIds :
        /\ Fits(<<[geometry |-> None]>>)
        /\ save_observations(project_id, "a", <<[geometry |-> None]>>, 0)

RaceDeleteDataset ==
    \E project_id \in ProjectIds :
        delete_dataset_from_project(project_id, "a", FALSE)

RaceDeleteProject == delete_project(2, FALSE)

RaceNext ==
    \/ RaceSave
    \/ RaceDeleteDataset
    \/ RaceDeleteProject
    \/ \E t \in Threads :
          \/ \E project_id \in ProjectIds : stats_lookup(t, project_id)
          \/ stats_queries(t)
          \/ stats_set(t)

SpecStatsRace == Init /\ [][RaceNext]_vars

(***************************************************************************)
(* C34: whenever no request is in flight, the cache holds for stats:P      *)
(* either no entry or a summary of the store as the requests that          *)
(* returned left it, however get_dataset_stats(P) was interleaved with     *)
(* the inserts and deletes on P.                                           *)
(***************************************************************************)
C34_NoStaleSummaryAfterRace ==
    \A p \in ProjectIds :
        (/\ \A t \in Threads : pc[t] = "idle"
         /\ cache_key(p) \in DOMAIN stats_cache)
        => /\ p \in projects
           /\ RowsOf(observations, p) # {}
           /\ stats_cache[cache_key(p)].value
                 \in stats_summaries(observations, p)

(***************************************************************************)
(* calculate_grid statement by statement (src/app.py:1374-1407), for       *)
(* workers that serve it at the same time, each in a transaction of its    *)
(* own under the store's READ COMMITTED isolation.  A row of grid_cells    *)
(* is known by its position in the table; a transaction keeps the rows     *)
(* it has deleted and the rows it has inserted until its commit.  A        *)
(* DELETE that meets rows another open transaction has deleted waits for   *)
(* that transaction to end.  Table grid_cells has no unique constraint on  *)
(* (project_id, geom) (src/models.py:73-84).                               *)
(***************************************************************************)
\* the rows of grid_cells a statement of the project sees
visible_cells(rows, project_id) ==
    {i \in DOMAIN rows : rows[i].project_id = project_id}

\* the table without the rows at the given positions
without_cells(rows, deleted) ==
    LET kept == order_by_id(DOMAIN rows \ deleted)
    IN [k \in 1..Len(kept) |-> rows[kept[k]]]

\* another open transaction holds the lock of a row of the project
row_locked(t, project_id) ==
    \E u \in Threads \ {t} :
        /\ pc[u] \in {"grid_insert", "grid_commit"}
        /\ local[u][1].project_id = project_id
        /\ local[u][1].deleted # {}

\* session.execute("DELETE FROM grid_cells WHERE project_id = :project_id")
grid_delete(t, project_id) ==
    /\ pc[t] = "idle"
    /\ ~row_locked(t, project_id)
    /\ Frame(t, "grid_insert",
             Some([project_id |-> project_id,
                   deleted |-> visible_cells(grid_cells, project_id),
                   inserted |-> <<>>]))
    /\ UNCHANGED <<store_vars, stats_cache, now, resp, session>>

\* session.execute(generation_sql): INSERT ... SELECT DISTINCT over the
\* committed observations
grid_insert(t) ==
    /\ pc[t] = "grid_insert"
    /\ LET l == local[t][1] IN
       Frame(t, "grid_commit",
             Some([l EXCEPT !.inserted =
                      generation_rows(base_grid_cells, observations,
                                      l.project_id)]))
    /\ UNCHANGED <<store_vars, stats_cache, now, resp, session>>

\* session.commit(), or the except branch: session.rollback() and 500
grid_commit(t, fail) ==
    /\ pc[t] = "grid_commit"
    /\ LET l == local[t][1] IN
       IF fail \/ (l.inserted # <<>> /\ l.project_id \notin projects)
       THEN /\ Respond(GridRequest(l.project_id, fail), 500, [cell_count |-> 0])
            /\ Frame(t, "idle", None)
            /\ UNCHANGED grid_cells
       ELSE /\ grid_cells' = without_cells(grid_cells, l.deleted) \o l.inserted
            /\ Frame(t, "grid_count", Some([project_id |-> l.project_id]))
            /\ UNCHANGED resp
    /\ UNCHANGED <<projects, observations, next_id, convex_hulls, hull_next_id,
                   base_grid_cells, parent_id, project_next_id,
                   stats_cache, now, session>>

\* cell_count = SELECT COUNT(*) ...; return jsonify(...)
grid_count(t) ==
    /\ pc[t] = "grid_count"
    /\ LET project_id == local[t][1].project_id IN
       Respond(GridRequest(project_id, FALSE), 200,
               [cell_count |-> cell_count(grid_cells, project_id)])
    /\ Frame(t, "idle", None)
    /\ UNCHANGED <<store_vars, stats_cache, now, session>>

(***************************************************************************)
(* Two workers serve calculate_grid requests of project 1 statement by     *)
(* statement while observations are saved.                                 *)
(***************************************************************************)
GridRaceSave ==
    \E features \in HullFeatureLists :
        /\ Fits(features)
        /\ save_observations(1, "a", features, 0)

GridRaceNext ==
    \/ GridRaceSave
    \/ \E t \in Threads :
          \/ grid_delete(t, 1)
          \/ grid_insert(t)
          \/ \E fail \in BOOLEAN : grid_commit(t, fail)
          \/ grid_count(t)

SpecGridRace == Init /\ [][GridRaceNext]_vars

(***************************************************************************)
(* C35: whenever no calculate_grid request is in flight, however the       *)
(* requests of one project were interleaved, the stored grid cells of the  *)
(* project hold no base cell twice.                                        *)
(***************************************************************************)
C35_CellsStoredOnceAfterRace ==
    (\A t \in Threads : pc[t] = "idle") =>
        \A i, j \in DOMAIN grid_cells :
            (/\ grid_cells[i].project_id = grid_cells[j].project_id
             /\ grid_cells[i].geom = grid_cells[j].geom) => i = j

(***************************************************************************)
(* Inserts and exclusions alone.  The properties of a feature are what     *)
(* the client sends: a feature exported from a project carries the key     *)
(* 'excluded' its observation had, and a CSV column named excluded         *)
(* becomes that key.                                                       *)
(***************************************************************************)
excluded_key == <<"excluded", "">>

FlaggedProps == (excluded_key :> Some("true"))
UnflaggedProps == (excluded_key :> Some("false"))

AgreeProps == {EmptyProps, FlaggedProps, UnflaggedProps}

AgreeSave ==
    \E props \in AgreeProps :
        /\ Fits(<<props>>)
        /\ save_observations(1, "a",
                             <<[geometry |-> None, properties |-> props]>>, 0)

AgreeUpload ==
    \E props \in AgreeProps :
        /\ Fits(<<props>>)
        /\ upload_csv_to_project(1, "b",
                                 <<[geometry |-> PointGeometry(1),
                                    properties |-> props]>>, 0)

AgreeExclude ==
    \E obs_id \in 1..2, excluded \in BOOLEAN :
        set_observation_excluded(obs_id, excluded, FALSE)

AgreeExcludeMany ==
    \E ids \in {<<1, 2>>, <<3>>}, excluded \in BOOLEAN :
        set_observations_excluded(ids, excluded, FALSE)

AgreeNext == AgreeSave \/ AgreeUpload \/ AgreeExclude \/ AgreeExcludeMany

SpecAgree == Init /\ [][AgreeNext]_vars

(***************************************************************************)
(* C36: in every state reached through inserts and single or batch         *)
(* exclude requests, an observation whose properties hold the key          *)
(* 'excluded' has that value in its excluded column.                       *)
(***************************************************************************)
C36_ExcludedColumnAgreesWithProperties ==
    \A o \in observations :
        excluded_key \in DOMAIN o.properties
        => o.properties[excluded_key] = Some(to_jsonb_text(o.excluded))

(***************************************************************************)
(* Statistics over observations whose 'unit.recordBasis' is a text, the    *)
(* empty text, a JSON null or absent.                                      *)
(***************************************************************************)
BasisHuman == (basis_key :> Some("HUMAN"))
BasisEmpty == (basis_key :> Some(""))
BasisNull == (basis_key :> None)

BasisProps == {BasisHuman, BasisEmpty, BasisNull, EmptyProps}

BasisSave ==
    \E props \in BasisProps :
        /\ Fits(<<props>>)
        /\ save_observations(1, "a",
                             <<[geometry |-> None, properties |-> props]>>, 0)

BasisStats == get_dataset_stats(1, FALSE)

BasisNext == BasisSave \/ BasisStats

SpecBasis == Init /\ [][BasisNext]_vars

\* the sum of the counts of a label -> count mapping
RECURSIVE SumOfCounts(_, _)
SumOfCounts(counts, labels) ==
    IF labels = {} THEN 0
    ELSE LET l == CHOOSE l \in labels : TRUE
         IN counts[l] + SumOfCounts(counts, labels \ {l})

(***************************************************************************)
(* C37: recordBasisCounts counts each observation of the project under     *)
(* exactly one label, so in every summary the counts add up to             *)
(* totalRecords, whatever the recordBasis values are, the empty text       *)
(* included.                                                               *)
(***************************************************************************)
C37_BasisCountsAddUpToTotal ==
    (/\ resp.request.op = "get_dataset_stats"
     /\ resp.status = 200)
    => LET stats == resp.body.stats[1]
       IN SumOfCounts(stats.recordBasisCounts, DOMAIN stats.recordBasisCounts)
             = stats.totalRecords

(***************************************************************************)
(* The session gate (src/app.py:62-70, 109-146, 182-201).  session[c] is   *)
(* the content of the session cookie of browser c.  What laji-auth         *)
(* answers for a token (_get_authentication_info) is an input: None or     *)
(* the user it names.                                                      *)
(***************************************************************************)
Tokens == {"t1"}
Users == {[qname |-> "MA.1", name |-> "A", email |-> "a@luomus.fi"]}

\* session[key] = value
session_set(s, key, value) ==
    [k \in DOMAIN s \cup {key} |-> IF k = key THEN value ELSE s[k]]

\* session.get(key, '')
session_get(s, key) == IF key \in DOMAIN s THEN s[key] ELSE ""

\* session.clear()
session_clear(s) == EmptySession

\* a gate that is never closed
token_missing_never(s) == FALSE

\* 'token' not in session
token_missing(s) == "token" \notin DOMAIN s

GateRequest(client) == [op |-> "login_required", client |-> client]

\* decorated_function: redirect(url_for('login', next=request.url)) or f()
login_required(client, f) ==
    IF token_missing(session[client])
    THEN /\ Respond(GateRequest(client), 302, [location |-> "login"])
         /\ UNCHANGED <<store_vars, stats_cache, now, pc, local, session>>
    ELSE f

\* redirect(laji_auth_login_url)
login(client) ==
    /\ Respond([op |-> "login", client |-> client], 302,
               [location |-> "laji-auth"])
    /\ UNCHANGED <<store_vars, stats_cache, now, pc, local, session>>

\* the session with the user's qname, name and email
with_user(s, info) ==
    IF info = None THEN s
    ELSE session_set(session_set(session_set(s, "user_id", info[1].qname),
                                 "user_name", info[1].name),
                     "user_email", info[1].email)

\* token is None when the POST body has no token or an empty one
login_callback(client, token, info) ==
    LET request == [op |-> "login_callback", client |-> client,
                    token |-> token]
    IN
    /\ IF token = None
       THEN /\ Respond(request, 400, [location |-> ""])
            /\ UNCHANGED session
       ELSE /\ session' =
                 [session EXCEPT ![client] =
                     with_user(session_set(session_set(@, "token", token[1]),
                                           "_permanent", "true"),
                               info)]
            /\ Respond(request, 302, [location |-> "next"])
    /\ UNCHANGED <<store_vars, stats_cache, now, pc, local>>

\* _delete_authentication_token(token) talks to laji-auth only
logout(client) ==
    /\ session' = [session EXCEPT ![client] = session_clear(@)]
    /\ Respond([op |-> "logout", client |-> client], 302,
               [location |-> "login"])
    /\ UNCHANGED <<store_vars, stats_cache, now, pc, local>>

\* jsonify({"user_id": session.get('user_id', ''), ...})
get_user_info(client) ==
    /\ Respond([op |-> "get_user_info", client |-> client], 200,
               [user_id |-> session_get(session[client], "user_id"),
                user_name |-> session_get(session[client], "user_name"),
                user_email |-> session_get(session[client], "user_email")])
    /\ UNCHANGED <<store_vars, stats_cache, now, pc, local, session>>

\* render_template("simple.html")
simple(client) ==
    /\ Respond([op |-> "simple", client |-> client], 200,
               [template |-> "simple.html"])
    /\ UNCHANGED <<store_vars, stats_cache, now, pc, local, session>>

(***************************************************************************)
(* Two browsers log in and out and send requests to pages and endpoints    *)
(* behind login_required.                                                  *)
(***************************************************************************)
SessionLogin == \E client \in Clients : login(client)

SessionCallback ==
    \E client \in Clients, token \in {None} \cup {Some(t) : t \in Tokens},
       info \in {None} \cup {Some(u) : u \in Users} :
        login_callback(client, token, info)

SessionLogout == \E client \in Clients : logout(client)

\* a request of the browser to a page or an endpoint behind the gate
SessionProtected(client) ==
    \/ login_required(client, simple(client))
    \/ login_required(client, get_user_info(client))
    \/ login_required(client,
          /\ Fits(<<[geometry |-> PointGeometry(1)]>>)
          /\ save_observations(1, "a", <<[geometry |-> PointGeometry(1)]>>, 0))
    \/ login_required(client, get_dataset_stats(1, FALSE))
    \/ login_required(client, get_observations(1, 1, 1))
    \/ login_required(client, set_observation_excluded(1, TRUE, FALSE))
    \/ login_required(client, delete_dataset_from_project(1, "a", FALSE))
    \/ login_required(client, calculate_grid(1, FALSE))
    \/ login_required(client, delete_project(2, FALSE))

SessionNext ==
    \/ SessionLogin
    \/ SessionCallback
    \/ SessionLogout
    \/ \E client \in Clients : SessionProtected(client)

SpecSession == Init /\ [][SessionNext]_vars

(***************************************************************************)
(* C38: a request to a page or an endpoint behind login_required by a      *)
(* session without a token is answered with a redirect to the login route  *)
(* and leaves store and cache alone; logout leaves the session without a   *)
(* token, and a session without a token gets one only from                 *)
(* login_callback.                                                         *)
(***************************************************************************)
C38_SessionGate ==
    /\ [][\A c \in Clients :
            (SessionProtected(c) /\ "token" \notin DOMAIN session[c])
            => /\ resp'.status = 302
               /\ resp'.body = [location |-> "login"]
               /\ UNCHANGED <<store_vars, stats_cache>>]_vars
    /\ [][\A c \in Clients :
            logout(c) => "token" \notin DOMAIN session'[c]]_vars
    /\ [][\A c \in Clients :
            ("token" \notin DOMAIN session[c] /\ "token" \in DOMAIN session'[c])
            => \E token \in {Some(t) : t \in Tokens},
                  info \in {None} \cup {Some(u) : u \in Users} :
                   login_callback(c, token, info)]_vars

\* Observations were saved, every browser has logged out since, and a
\* request behind the gate has just been redirected.
C38_Witness ==
    /\ resp.request.op = "login_required"
    /\ resp.status = 302
    /\ observations # {}
    /\ \A c \in Clients : "token" \notin DOMAIN session[c]

====
